---- MODULE Spec2Model ----
(***************************************************************************)
(* Model of the pedalboard-effects core: effect units with validated       *)
(* parameters, effects chains, the effects manager, presets, the preset    *)
(* store and the audio engine's chain hand-over.                            *)
(*                                                                         *)
(* Numbers are held in hundredths, so 0.25 is 25, 1 is 100, 30.0 is 3000.   *)
(* A Python value is a record [t, v]: t is the Python type ("float",       *)
(* "int", "bool", "str") or "nan" for float('nan'); v is the number in     *)
(* hundredths (True is 100, False is 0; for "nan" and "str" v is 0).       *)
(***************************************************************************)
EXTENDS Integers, Sequences, FiniteSets, TLC

VARIABLES
    effect,        \* SpecEffect: the effect unit under test (or NoEffect)
    call,          \* SpecEffect: the last create/update call and its outcome
    chains,        \* Spec: EffectsManager._chains, chain id -> chain
    current,       \* Spec: id of EffectsManager._current_chain
    heap,          \* Spec: the AudioEffect objects, effect id -> fields
    chain_ids,     \* Spec: number of chain ids uuid4 has handed out
    result,        \* Spec: the last manager/chain call and its outcome
    presets,       \* SpecStore: PresetManager._presets, id -> preset
    preset_names,  \* SpecStore: PresetManager._preset_names, name -> id
    files,         \* SpecStore: the presets directory, id -> stored record
    preset_ids,    \* SpecStore: number of preset ids uuid4 has handed out
    sres,          \* SpecStore: the last store call and its outcome
    pin,           \* SpecPreset: the preset under test
    pout,          \* SpecPreset: outcome of serialize/deserialize/toChain
    engine,        \* SpecConc: the engine's installed chain and the reader
    ctl            \* SpecConc: the control path's position in its operation

vars == <<effect, call, chains, current, heap, chain_ids, result, presets, preset_names,
          files, preset_ids, sres, pin, pout, engine, ctl>>

effectVars == <<effect, call>>
managerVars == <<chains, current, heap, chain_ids, result>>
storeVars == <<presets, preset_names, files, preset_ids, sres>>
presetVars == <<pin, pout>>
concVars == <<engine, ctl>>

----------------------------------------------------------------------------
(* Values                                                                  *)

Float(n) == [t |-> "float", v |-> n]
IntV(n) == [t |-> "int", v |-> n * 100]
BoolV(b) == [t |-> "bool", v |-> IF b THEN 100 ELSE 0]
NaN == [t |-> "nan", v |-> 0]
StrV == [t |-> "str", v |-> 0]

\* isinstance(x, (int, float)): bool is a subclass of int, nan is a float
IsNumeric(x) == x.t \in {"int", "float", "bool", "nan"}

\* the number a numeric value compares as (True == 1, False == 0)
Num(x) == x.v

\* Python's < and > : every comparison with nan is False
PyLt(x, n) == x.t # "nan" /\ Num(x) < n
PyGt(x, n) == x.t # "nan" /\ Num(x) > n

\* x in [True, False, 0, 1]
InBoolList(x) == x.t \in {"int", "float", "bool"} /\ Num(x) \in {0, 100}

\* bool(x) for a value that passed InBoolList
PyBool(x) == BoolV(Num(x) # 0)

----------------------------------------------------------------------------
(* Effect unit: src/models/audio_effect.py                                 *)

EffectType == {"BOOST", "DISTORTION", "DELAY", "REVERB"}

Def(lo, hi, dflt, units) == [min |-> lo, max |-> hi, default |-> dflt, units |-> units]

PARAMETER_DEFINITIONS ==
    [k \in EffectType |->
        CASE k = "BOOST" ->
               [p \in {"gain_db", "tone"} |->
                   IF p = "gain_db" THEN Def(-2000, 3000, Float(0), "dB")
                   ELSE Def(0, 100, Float(50), "")]
          [] k = "DISTORTION" ->
               [p \in {"drive_db", "tone", "level"} |->
                   CASE p = "drive_db" -> Def(0, 3000, Float(1000), "dB")
                     [] p = "tone" -> Def(0, 100, Float(50), "")
                     [] p = "level" -> Def(0, 100, Float(70), "")]
          [] k = "DELAY" ->
               [p \in {"delay_seconds", "feedback", "mix", "tempo_sync"} |->
                   CASE p = "delay_seconds" -> Def(0, 200, Float(25), "s")
                     [] p = "feedback" -> Def(0, 95, Float(30), "")
                     [] p = "mix" -> Def(0, 100, Float(30), "")
                     [] p = "tempo_sync" -> Def(0, 100, BoolV(FALSE), "bool")]
          [] k = "REVERB" ->
               [p \in {"room_size", "damping", "wet_level", "dry_level"} |->
                   CASE p = "room_size" -> Def(0, 100, Float(50), "")
                     [] p = "damping" -> Def(0, 100, Float(50), "")
                     [] p = "wet_level" -> Def(0, 100, Float(30), "")
                     [] p = "dry_level" -> Def(0, 100, Float(70), "")]]

\* d[k] = v on a Python dict: adds the key when it is absent
DictSet(d, k, v) == [x \in (DOMAIN d) \cup {k} |-> IF x = k THEN v ELSE d[x]]

\* ValidateEntry without the upper-bound comparison
ValidateEntry_NoUpperBound(kind, name, value) ==
    LET defs == PARAMETER_DEFINITIONS[kind] IN
    IF name \notin DOMAIN defs THEN "UnknownParameter"
    ELSE IF defs[name].units = "bool"
         THEN IF ~InBoolList(value) THEN "InvalidType" ELSE "OK"
         ELSE IF ~IsNumeric(value) THEN "InvalidType"
              ELSE IF PyLt(value, defs[name].min) THEN "OutOfRange" ELSE "OK"

\* The check update_parameters makes on one (name, value) entry:
\* "OK" or the error it raises.
ValidateEntry(kind, name, value) ==
    LET defs == PARAMETER_DEFINITIONS[kind] IN
    IF name \notin DOMAIN defs THEN "UnknownParameter"
    ELSE IF defs[name].units = "bool"
         THEN IF ~InBoolList(value) THEN "InvalidType" ELSE "OK"
         ELSE IF ~IsNumeric(value) THEN "InvalidType"
              ELSE IF PyLt(value, defs[name].min) \/ PyGt(value, defs[name].max)
                   THEN "OutOfRange" ELSE "OK"

\* the value update_parameters stores for an accepted entry
StoredValue(kind, name, value) ==
    IF PARAMETER_DEFINITIONS[kind][name].units = "bool" THEN PyBool(value) ELSE value

\* update_parameters made all-or-nothing: a refused entry restores the
\* parameters the call started with
RECURSIVE update_parameters_rollback(_, _, _, _)
update_parameters_rollback(kind, params, new_parameters, original) ==
    IF new_parameters = << >> THEN [parameters |-> params, err |-> "OK"]
    ELSE LET name == Head(new_parameters)[1]
             value == Head(new_parameters)[2]
             chk == ValidateEntry(kind, name, value)
         IN IF chk # "OK" THEN [parameters |-> original, err |-> chk]
            ELSE update_parameters_rollback(kind,
                     DictSet(params, name, StoredValue(kind, name, value)),
                     Tail(new_parameters), original)

update_parameters_atomic(kind, params, new_parameters) ==
    update_parameters_rollback(kind, params, new_parameters, params)

\* AudioEffect.update_parameters: the entries of the dict are taken in
\* insertion order; each is checked and stored before the next is looked at.
\* Returns the parameters as the call leaves them and the error raised.
RECURSIVE update_parameters(_, _, _)
update_parameters(kind, params, new_parameters) ==
    IF new_parameters = << >> THEN [parameters |-> params, err |-> "OK"]
    ELSE LET name == Head(new_parameters)[1]
             value == Head(new_parameters)[2]
             chk == ValidateEntry(kind, name, value)
         IN IF chk # "OK" THEN [parameters |-> params, err |-> chk]
            ELSE update_parameters(kind,
                                   DictSet(params, name, StoredValue(kind, name, value)),
                                   Tail(new_parameters))

\* the defaults AudioEffect.__init__ fills in
DefaultParameters(kind) ==
    [p \in DOMAIN PARAMETER_DEFINITIONS[kind] |-> PARAMETER_DEFINITIONS[kind][p].default]

\* AudioEffect.__init__ without the call of update_parameters
AudioEffect_init_DefaultsOnly(kind, parameters) ==
    IF kind \notin EffectType THEN [err |-> "InvalidKind"]
    ELSE [err |-> "OK", type |-> kind, parameters |-> DefaultParameters(kind),
          bypassed |-> FALSE, position |-> 0, preset_name |-> "None"]

\* AudioEffect.__init__(effect_type, parameters): the object, or the error
AudioEffect_init(kind, parameters) ==
    IF kind \notin EffectType THEN [err |-> "InvalidKind"]
    ELSE LET r == update_parameters(kind, DefaultParameters(kind), parameters)
         IN [err |-> r.err, type |-> kind, parameters |-> r.parameters,
             bypassed |-> FALSE, position |-> 0, preset_name |-> "None"]

----------------------------------------------------------------------------
(* Values of the variables a specification does not use                    *)

NoEffect == [type |-> "none"]
NoCall == [op |-> "none"]

EffectIdle == effect = NoEffect /\ call = NoCall
ManagerIdle ==
    chains = << >> /\ current = 0 /\ heap = << >> /\ chain_ids = 0 /\ result = NoCall
StoreIdle ==
    presets = << >> /\ preset_names = << >> /\ files = << >> /\ preset_ids = 0 /\ sres = NoCall
PresetIdle == pin = NoCall /\ pout = NoCall
ConcIdle == engine = NoCall /\ ctl = NoCall

----------------------------------------------------------------------------
(* SpecEffect: one effect unit, created with overrides and then updated     *)

\* most entries in one update dict
MaxKeys == 2

\* parameter names the calls use: two of Boost's, one of Delay's (each is
\* an unknown name for the other kind)
UpdateKeys == {"gain_db", "tone", "tempo_sync"}

\* values the calls use: 1, 31.0 and float('nan')
UpdateValues == {IntV(1), Float(3100), NaN}

\* kinds the calls use
EffectKinds == {"BOOST", "DELAY"}

\* a dict of at most MaxKeys entries, as the sequence of its items
UpdateDicts ==
    {d \in UNION {[1..n -> UpdateKeys \X UpdateValues] : n \in 0..MaxKeys} :
        \A i, j \in DOMAIN d : i # j => d[i][1] # d[j][1]}

\* AudioEffect(kind, overrides): a failed construction leaves no new object
CreateEffect(kind, overrides) ==
    LET e == AudioEffect_init(kind, overrides) IN
    /\ effect' = IF e.err = "OK" THEN [type |-> e.type, parameters |-> e.parameters,
                                       bypassed |-> e.bypassed, position |-> e.position]
                 ELSE effect
    /\ call' = [op |-> "create", kind |-> kind, before |-> DefaultParameters(kind),
                updates |-> overrides, err |-> e.err]
    /\ UNCHANGED <<managerVars, storeVars, presetVars, concVars>>

\* effect.update_parameters(updates)
UpdateParameters(updates) ==
    /\ effect # NoEffect
    /\ LET r == update_parameters(effect.type, effect.parameters, updates) IN
        /\ effect' = [effect EXCEPT !.parameters = r.parameters]
        /\ call' = [op |-> "update", kind |-> effect.type, before |-> effect.parameters,
                    updates |-> updates, err |-> r.err]
    /\ UNCHANGED <<managerVars, storeVars, presetVars, concVars>>

InitEffect == EffectIdle /\ ManagerIdle /\ StoreIdle /\ PresetIdle /\ ConcIdle

NextEffect ==
    \/ \E k \in EffectKinds, o \in UpdateDicts : CreateEffect(k, o)
    \/ \E u \in UpdateDicts : UpdateParameters(u)

SpecEffect == InitEffect /\ [][NextEffect]_vars

\* the schema of the effect under test
EffectDefs == PARAMETER_DEFINITIONS[effect.type]

\* a value that is a number within [lo, hi]
WithinRange(x, lo, hi) == x.t \in {"int", "float", "bool"} /\ lo <= Num(x) /\ Num(x) <= hi

\* C8: in every state reached by creation with overrides and any sequence of
\* updateParameters calls, the parameter map has exactly one entry per schema
\* field, every numeric field holds a value within [min, max] and every
\* boolean field holds true or false.
C8_ParametersWithinSchema ==
    effect # NoEffect =>
        /\ DOMAIN effect.parameters = DOMAIN EffectDefs
        /\ \A p \in DOMAIN EffectDefs :
              IF EffectDefs[p].units = "bool"
              THEN effect.parameters[p] \in {BoolV(TRUE), BoolV(FALSE)}
              ELSE WithinRange(effect.parameters[p], EffectDefs[p].min, EffectDefs[p].max)

\* the call was an update of one numeric field with a number below min or above max
SingleOutOfRange ==
    /\ call.op = "update"
    /\ Len(call.updates) = 1
    /\ call.updates[1][1] \in DOMAIN EffectDefs
    /\ EffectDefs[call.updates[1][1]].units # "bool"
    /\ call.updates[1][2].t \in {"int", "float", "bool"}
    /\ \/ Num(call.updates[1][2]) < EffectDefs[call.updates[1][1]].min
       \/ Num(call.updates[1][2]) > EffectDefs[call.updates[1][1]].max

FirstFail ==
    LET bad == {i \in 1..Len(call.updates) :
                   ValidateEntry(call.kind, call.updates[i][1], call.updates[i][2]) # "OK"}
    IN IF bad = {} THEN Len(call.updates) + 1
       ELSE CHOOSE i \in bad : \A j \in bad : i <= j

\* what the claim says the parameters are after the call: entries before the
\* first refused one hold their new values, all others their previous values
ExpectedAfter ==
    [p \in DOMAIN call.before |->
        IF \E j \in 1..(FirstFail - 1) : call.updates[j][1] = p
        THEN LET j == CHOOSE j \in 1..(FirstFail - 1) : call.updates[j][1] = p
             IN StoredValue(call.kind, p, call.updates[j][2])
        ELSE call.before[p]]

\* C10: updateParameters applies its keys one at a time in the order given;
\* when key k is the first to fail the call aborts with k's error, the keys
\* before k keep their new values, k and the keys after it their previous ones.
C10_PartialApply ==
    (call.op = "update" /\ FirstFail <= Len(call.updates)) =>
        /\ call.err = ValidateEntry(call.kind, call.updates[FirstFail][1],
                                    call.updates[FirstFail][2])
        /\ call.err # "OK"
        /\ effect.parameters = ExpectedAfter

\* C10 witness: a two-key call whose first key was applied and whose second failed
C10_Witness ==
    /\ call.op = "update"
    /\ Len(call.updates) = 2
    /\ FirstFail = 2
    /\ effect.parameters[call.updates[1][1]] # call.before[call.updates[1][1]]
    /\ effect.parameters[call.updates[1][1]] =
           StoredValue(call.kind, call.updates[1][1], call.updates[1][2])

----------------------------------------------------------------------------
(* Effects chain: src/models/effects_chain.py                              *)
(* A chain is [name, effects, active]; effects is the list of references    *)
(* to AudioEffect objects, and the objects live in a heap                   *)
(* h: reference -> [id, type, parameters, bypassed, position, preset_name]. *)
(* created_at and modified_at are clock readings, which the model does not  *)
(* hold: an operation's outcome says in "touched" whether it called         *)
(* _update_modified_time, that is, whether modified_at got a new reading.   *)

MAX_EFFECTS == 8

\* length of the strings used as names ("N43", "N44", "N50", "N51", "N100" and
\* "N101" stand for strings of 43, 44, 50, 51, 100 and 101 characters)
StrLen(s) ==
    CASE s = "" -> 0
      [] s = "A" -> 1
      [] s = "B" -> 1
      [] s = "Lead" -> 4
      [] s = "Default Chain" -> 13
      [] s = "A (Copy)" -> 8
      [] s = "Lead (Copy)" -> 11
      [] s = "N43" -> 43
      [] s = "N44" -> 44
      [] s = "N43 (Copy)" -> 50
      [] s = "N44 (Copy)" -> 51
      [] s = "N50 (Copy)" -> 57
      [] s = "N50" -> 50
      [] s = "N51" -> 51
      [] s = "N100" -> 100
      [] s = "N101" -> 101

\* EffectsChain.__init__(name): the new chain, or the error
EffectsChain_init(name) ==
    IF StrLen(name) < 1 \/ StrLen(name) > 50 THEN [err |-> "InvalidName"]
    ELSE [err |-> "OK",
          chain |-> [name |-> name, effects |-> << >>, active |-> FALSE]]

\* EffectsChain._update_positions: set_position(i) on effects[i], in list order
RECURSIVE update_positions(_, _, _)
update_positions(effects, h, i) ==
    IF i > Len(effects) THEN h
    ELSE update_positions(effects, [h EXCEPT ![effects[i]].position = i - 1], i + 1)

\* index of the first element of the list whose id is effect_id, 0 when none
IndexOfId(effects, h, effect_id) ==
    LET hits == {i \in 1..Len(effects) : h[effects[i]].id = effect_id}
    IN IF hits = {} THEN 0 ELSE CHOOSE i \in hits : \A j \in hits : i <= j

\* the list without its element at index i
RemoveAt(effects, i) ==
    [j \in 1..(Len(effects) - 1) |-> IF j < i THEN effects[j] ELSE effects[j + 1]]

\* add_effect without its capacity check
add_effect_NoLimit(chain, h, e) ==
    IF \E i \in 1..Len(chain.effects) : h[chain.effects[i]].id = h[e].id
    THEN [err |-> "DuplicateEffect", chain |-> chain, heap |-> h, touched |-> FALSE]
    ELSE [err |-> "OK",
          chain |-> [chain EXCEPT !.effects = Append(@, e)],
          heap |-> [h EXCEPT ![e].position = Len(chain.effects)],
          touched |-> TRUE]

\* EffectsChain.add_effect(effect): e is the reference of the effect
add_effect(chain, h, e) ==
    IF Len(chain.effects) >= MAX_EFFECTS
    THEN [err |-> "CapacityExceeded", chain |-> chain, heap |-> h, touched |-> FALSE]
    ELSE IF \E i \in 1..Len(chain.effects) : h[chain.effects[i]].id = h[e].id
    THEN [err |-> "DuplicateEffect", chain |-> chain, heap |-> h, touched |-> FALSE]
    ELSE [err |-> "OK",
          chain |-> [chain EXCEPT !.effects = Append(@, e)],
          heap |-> [h EXCEPT ![e].position = Len(chain.effects)],
          touched |-> TRUE]

\* EffectsChain.remove_effect(effect_id): ret is the value returned
remove_effect(chain, h, effect_id) ==
    LET i == IndexOfId(chain.effects, h, effect_id) IN
    IF i = 0 THEN [ret |-> FALSE, chain |-> chain, heap |-> h, touched |-> FALSE]
    ELSE LET rest == RemoveAt(chain.effects, i) IN
         [ret |-> TRUE,
          chain |-> [chain EXCEPT !.effects = rest],
          heap |-> update_positions(rest, h, 1),
          touched |-> TRUE]

\* the new list reorder_effects builds: for each id the first effect of the
\* chain with that id
NewEffects(effects, h, effect_ids) ==
    [k \in 1..Len(effect_ids) |-> effects[IndexOfId(effects, h, effect_ids[k])]]

\* reorder_effects that drops the chain's list before it looks the ids up
reorder_effects_ClearFirst(chain, h, effect_ids) ==
    IF Len(effect_ids) # Len(chain.effects)
    THEN [err |-> "OrderMismatch", chain |-> chain, heap |-> h, touched |-> FALSE]
    ELSE IF \E k \in 1..Len(effect_ids) : IndexOfId(chain.effects, h, effect_ids[k]) = 0
    THEN [err |-> "OrderMismatch", chain |-> [chain EXCEPT !.effects = << >>], heap |-> h,
          touched |-> FALSE]
    ELSE LET new_effects == NewEffects(chain.effects, h, effect_ids) IN
         [err |-> "OK",
          chain |-> [chain EXCEPT !.effects = new_effects],
          heap |-> update_positions(new_effects, h, 1),
          touched |-> TRUE]

\* EffectsChain.reorder_effects(effect_ids)
reorder_effects(chain, h, effect_ids) ==
    IF Len(effect_ids) # Len(chain.effects)
    THEN [err |-> "OrderMismatch", chain |-> chain, heap |-> h, touched |-> FALSE]
    ELSE IF \E k \in 1..Len(effect_ids) : IndexOfId(chain.effects, h, effect_ids[k]) = 0
    THEN [err |-> "OrderMismatch", chain |-> chain, heap |-> h, touched |-> FALSE]
    ELSE LET new_effects == NewEffects(chain.effects, h, effect_ids) IN
         [err |-> "OK",
          chain |-> [chain EXCEPT !.effects = new_effects],
          heap |-> update_positions(new_effects, h, 1),
          touched |-> TRUE]

----------------------------------------------------------------------------
(* SpecChain: one chain and the effect objects its caller holds             *)

\* most AudioEffect objects the caller creates
MaxEffectObjects == 2

\* longest id list passed to reorder_effects
MaxOrderLen == 2

\* the reference and id the next AudioEffect() gets (uuid4: never seen before)
NewRef(h) == Cardinality(DOMAIN h) + 1

\* ids a caller can pass: those of the objects created, and one no effect has
KnownIds == 1..(MaxEffectObjects + 1)

\* id lists passed to reorder_effects
OrderLists == UNION {[1..n -> KnownIds] : n \in 0..MaxOrderLen}

\* the heap with a new AudioEffect(kind) in it
Allocate(h, kind) ==
    LET e == AudioEffect_init(kind, << >>) IN
    [o \in (DOMAIN h) \cup {NewRef(h)} |->
        IF o = NewRef(h)
        THEN [id |-> NewRef(h), type |-> e.type, parameters |-> e.parameters,
              bypassed |-> e.bypassed, position |-> e.position,
              preset_name |-> e.preset_name]
        ELSE h[o]]

TheChain == chains[1]

\* chain.add_effect(AudioEffect(kind))
ChainAddNew(kind) ==
    /\ Cardinality(DOMAIN heap) < MaxEffectObjects
    /\ LET h == Allocate(heap, kind)
           r == add_effect(TheChain, h, NewRef(heap))
       IN /\ chains' = [chains EXCEPT ![1] = r.chain]
          /\ heap' = r.heap
          /\ result' = [op |-> "add", err |-> r.err, before |-> TheChain.effects,
                        arg |-> <<NewRef(heap)>>, touched |-> r.touched]
    /\ UNCHANGED <<current, chain_ids, effectVars, storeVars, presetVars, concVars>>

\* chain.add_effect(e) for an effect object the caller already holds
ChainAddHeld(e) ==
    /\ e \in DOMAIN heap
    /\ LET r == add_effect(TheChain, heap, e)
       IN /\ chains' = [chains EXCEPT ![1] = r.chain]
          /\ heap' = r.heap
          /\ result' = [op |-> "add", err |-> r.err, before |-> TheChain.effects,
                        arg |-> <<e>>, touched |-> r.touched]
    /\ UNCHANGED <<current, chain_ids, effectVars, storeVars, presetVars, concVars>>

\* chain.remove_effect(effect_id)
ChainRemove(effect_id) ==
    /\ LET r == remove_effect(TheChain, heap, effect_id)
       IN /\ chains' = [chains EXCEPT ![1] = r.chain]
          /\ heap' = r.heap
          /\ result' = [op |-> "remove", err |-> IF r.ret THEN "OK" ELSE "NotFound",
                        before |-> TheChain.effects, arg |-> <<effect_id>>,
                        touched |-> r.touched]
    /\ UNCHANGED <<current, chain_ids, effectVars, storeVars, presetVars, concVars>>

\* chain.reorder_effects(effect_ids)
ChainReorder(effect_ids) ==
    /\ LET r == reorder_effects(TheChain, heap, effect_ids)
       IN /\ chains' = [chains EXCEPT ![1] = r.chain]
          /\ heap' = r.heap
          /\ result' = [op |-> "reorder", err |-> r.err, before |-> TheChain.effects,
                        arg |-> effect_ids, touched |-> r.touched]
    /\ UNCHANGED <<current, chain_ids, effectVars, storeVars, presetVars, concVars>>

InitChain ==
    /\ chains = [c \in {1} |-> EffectsChain_init("Lead").chain]
    /\ current = 0
    /\ heap = << >>
    /\ chain_ids = 1
    /\ result = NoCall
    /\ EffectIdle /\ StoreIdle /\ PresetIdle /\ ConcIdle

NextChain ==
    \/ \E k \in EffectKinds : ChainAddNew(k)
    \/ \E e \in 1..MaxEffectObjects : ChainAddHeld(e)
    \/ \E i \in KnownIds : ChainRemove(i)
    \/ \E l \in OrderLists : ChainReorder(l)

SpecChain == InitChain /\ [][NextChain]_vars

\* the chain invariant: positions equal indices, ids pairwise distinct
PositionsMatch(c, h) == \A i \in 1..Len(c.effects) : h[c.effects[i]].position = i - 1
IdsDistinct(c, h) ==
    \A i, j \in 1..Len(c.effects) : i # j => h[c.effects[i]].id # h[c.effects[j]].id

\* C1: in every state reached by addEffect, removeEffect and reorderEffects
\* calls on a chain, effects[i].position = i for every index i and no two
\* elements of the effect sequence have the same id.
C1_ChainInvariant == PositionsMatch(TheChain, heap) /\ IdsDistinct(TheChain, heap)

\* the ids of the effects in a list, in order
IdsOf(effects, h) == [i \in 1..Len(effects) |-> h[effects[i]].id]

\* l is a permutation of m
IsPermutation(l, m) ==
    /\ Len(l) = Len(m)
    /\ \A x \in KnownIds :
          Cardinality({i \in 1..Len(l) : l[i] = x}) = Cardinality({i \in 1..Len(m) : m[i] = x})

\* C2: reorderEffects fails with OrderMismatch whenever the supplied id list
\* is not a permutation of the chain's current ids (extra, missing or
\* duplicated id).
C2_NonPermutationRejected ==
    (result.op = "reorder" /\ ~IsPermutation(result.arg, IdsOf(result.before, heap)))
        => result.err = "OrderMismatch"

----------------------------------------------------------------------------
(* Effects manager: src/services/effects_manager.py                        *)
(* _chains is a dict keyed by chain id; uuid4 ids are modelled as 1, 2, ... *)
(* in the order they are handed out, so the dict's insertion order is the   *)
(* order of the ids. current is the id of _current_chain.                   *)

\* an effect configuration dict; a key that is absent has its has_ field FALSE
\* (a missing "type" is type "missing")
EffectConfig(type, parameters, has_bypassed, bypassed) ==
    [type |-> type, parameters |-> parameters, has_position |-> FALSE, position |-> 0,
     has_bypassed |-> has_bypassed, bypassed |-> bypassed,
     has_preset_name |-> FALSE, preset_name |-> "None"]

\* the element of a one-element set; an intermediate result is bound as the
\* element of such a set so that it is computed once
The(S) == CHOOSE x \in S : TRUE

\* EffectsManager._create_effect_from_config: the new object's fields, or the error
create_effect_from_config(cfg) ==
    The({IF e.err # "OK" THEN [err |-> e.err]
         ELSE IF cfg.has_position /\ cfg.position < 0 THEN [err |-> "InvalidPosition"]
         ELSE [err |-> "OK",
               effect |-> [type |-> e.type, parameters |-> e.parameters,
                           bypassed |-> IF cfg.has_bypassed THEN cfg.bypassed ELSE e.bypassed,
                           position |-> IF cfg.has_position THEN cfg.position ELSE e.position,
                           preset_name |-> IF cfg.has_preset_name THEN cfg.preset_name
                                           ELSE e.preset_name]]
         : e \in {AudioEffect_init(cfg.type, cfg.parameters)}})

\* the heap with a new object holding the given fields
Store(h, fields) ==
    [o \in (DOMAIN h) \cup {NewRef(h)} |->
        IF o = NewRef(h)
        THEN [id |-> NewRef(h), type |-> fields.type, parameters |-> fields.parameters,
              bypassed |-> fields.bypassed, position |-> fields.position,
              preset_name |-> fields.preset_name]
        ELSE h[o]]

\* EffectsManager._create_and_add_effect(chain, effect_config)
create_and_add_effect(chain, h, cfg) ==
    The({IF c.err # "OK" THEN [err |-> c.err, chain |-> chain, heap |-> h, touched |-> FALSE]
         ELSE The({add_effect(chain, h2, NewRef(h)) : h2 \in {Store(h, c.effect)}})
         : c \in {create_effect_from_config(cfg)}})

\* the loop of create_chain over the effect configurations, stopping at the
\* first one that raises
RECURSIVE add_all_effects(_, _, _)
add_all_effects(chain, h, cfgs) ==
    IF cfgs = << >> THEN [err |-> "OK", chain |-> chain, heap |-> h, touched |-> FALSE]
    ELSE The({IF r.err # "OK" THEN r
              ELSE The({add_all_effects(c2, h2, Tail(cfgs)) : c2 \in {r.chain}, h2 \in {r.heap}})
              : r \in {create_and_add_effect(chain, h, Head(cfgs))}})

\* an object no chain refers to any more: the manager hands no reference to
\* it to anyone, so it is garbage and only its id stays taken
Freed(o) == [id |-> o, type |-> "freed", parameters |-> << >>, bypassed |-> FALSE,
             position |-> 0, preset_name |-> "None"]

\* the heap after the objects no chain of chs refers to are collected
Collect(chs, h) ==
    [o \in DOMAIN h |->
        IF \E c \in DOMAIN chs : \E i \in 1..Len(chs[c].effects) : chs[c].effects[i] = o
        THEN h[o] ELSE Freed(o)]

\* the smallest of a non-empty set of ids
MinId(S) == CHOOSE x \in S : \A y \in S : x <= y

\* most chain ids handed out in one run
MaxChainIds == 2

\* most effect objects the manager creates in one run
MaxManagerEffects == 1

\* effect configurations the calls use: a Boost, a bypassed Delay with
\* tempo_sync 1, a Boost with gain_db 31.0, and a kind that does not exist
EffectConfigs ==
    {EffectConfig("BOOST", << >>, FALSE, FALSE),
     EffectConfig("DELAY", << <<"tempo_sync", IntV(1)>> >>, TRUE, TRUE),
     EffectConfig("BOOST", << <<"gain_db", Float(3100)>> >>, FALSE, FALSE),
     EffectConfig("FUZZ", << >>, FALSE, FALSE)}

\* chain names the calls use
ChainNames == {"A", ""}

\* chain configurations: has_name FALSE is a dict without "name"
ChainConfigs ==
    {c \in [has_name : BOOLEAN, name : ChainNames,
            effects : UNION {[1..n -> EffectConfigs] : n \in 0..MaxManagerEffects}] :
        ~c.has_name => c.name = ""}

\* create_chain that registers the chain and makes it current before the
\* effects are added
create_chain_RegisterFirst(chs, cur, h, id, cfg) ==
    IF ~cfg.has_name
    THEN [err |-> "InvalidChainConfig", chains |-> chs, current |-> cur, heap |-> h]
    ELSE The({
      IF c.err # "OK"
      THEN [err |-> "InvalidChainConfig", chains |-> chs, current |-> cur, heap |-> h]
      ELSE The({
        [err |-> IF r.err = "OK" THEN "OK" ELSE "InvalidChainConfig",
         chains |-> [i \in (DOMAIN chs) \cup {id} |-> IF i = id THEN r.chain ELSE chs[i]],
         current |-> id, heap |-> r.heap]
        : r \in {add_all_effects(c.chain, h, cfg.effects)}})
      : c \in {EffectsChain_init(cfg.name)}})

\* EffectsManager.create_chain(chain_config) on the chain mapping chs, the
\* current chain cur and the heap h; id is the id uuid4 gives the new chain.
\* A configuration without "name" is refused first; any exception of the
\* constructor or of the loop over the effects is raised again as
\* InvalidChainConfig, and the chain built so far is dropped.
create_chain(chs, cur, h, id, cfg) ==
    IF ~cfg.has_name
    THEN [err |-> "InvalidChainConfig", chains |-> chs, current |-> cur, heap |-> h]
    ELSE The({
      IF c.err # "OK"
      THEN [err |-> "InvalidChainConfig", chains |-> chs, current |-> cur, heap |-> h]
      ELSE The({
        IF r.err # "OK"
        THEN [err |-> "InvalidChainConfig", chains |-> chs, current |-> cur, heap |-> h]
        ELSE [err |-> "OK",
              chains |-> [i \in (DOMAIN chs) \cup {id} |->
                             IF i = id THEN r.chain ELSE chs[i]],
              current |-> id, heap |-> r.heap]
        : r \in {add_all_effects(c.chain, h, cfg.effects)}})
      : c \in {EffectsChain_init(cfg.name)}})

\* EffectsManager.create_chain(chain_config)
CreateChain(cfg) ==
    /\ chain_ids < MaxChainIds
    /\ \E r \in {create_chain(chains, current, heap, chain_ids + 1, cfg)} :
          /\ r.err = "OK" => Cardinality(DOMAIN r.heap) <= MaxManagerEffects
          /\ chains' = r.chains
          /\ heap' = r.heap
          /\ current' = r.current
          /\ chain_ids' = IF r.err = "OK" THEN chain_ids + 1 ELSE chain_ids
          /\ result' = [op |-> "create_chain", err |-> r.err]
    /\ UNCHANGED <<effectVars, storeVars, presetVars, concVars>>

\* update configurations: an absent key has its has_ field FALSE
UpdateConfigs == [has_name : BOOLEAN, name : {""}, has_active : BOOLEAN, active : BOOLEAN]

\* EffectsManager.update_chain(chain_id, update_config)
UpdateChain(chain_id, cfg) ==
    /\ IF chain_id \notin DOMAIN chains
       THEN /\ result' = [op |-> "update_chain", err |-> "ChainNotFound"]
            /\ UNCHANGED chains
       ELSE LET c1 == IF cfg.has_name THEN [chains[chain_id] EXCEPT !.name = cfg.name]
                      ELSE chains[chain_id]
                c2 == IF cfg.has_active THEN [c1 EXCEPT !.active = cfg.active] ELSE c1
            IN /\ chains' = [chains EXCEPT ![chain_id] = c2]
               /\ result' = [op |-> "update_chain", err |-> "OK"]
    /\ UNCHANGED <<current, heap, chain_ids, effectVars, storeVars, presetVars, concVars>>

\* EffectsManager.add_effect_to_chain(chain_id, effect_config)
AddEffectToChain(chain_id, cfg) ==
    /\ IF chain_id \notin DOMAIN chains
       THEN /\ result' = [op |-> "add_effect_to_chain", err |-> "ChainNotFound"]
            /\ UNCHANGED <<chains, heap>>
       ELSE \E r \in {IF cfg.type = "missing" THEN [err |-> "InvalidEffectConfig"]
                      ELSE create_and_add_effect(chains[chain_id], heap, cfg)} :
            \E ok \in {r.err = "OK"} :
               /\ ok => Cardinality(DOMAIN r.heap) <= MaxManagerEffects
               /\ chains' = IF ok THEN [chains EXCEPT ![chain_id] = r.chain] ELSE chains
               /\ heap' = IF ok THEN r.heap ELSE heap
               /\ result' = [op |-> "add_effect_to_chain",
                             err |-> IF ok THEN "OK" ELSE "InvalidEffectConfig"]
    /\ UNCHANGED <<current, chain_ids, effectVars, storeVars, presetVars, concVars>>

\* EffectsManager.remove_effect_from_chain(chain_id, effect_id)
RemoveEffectFromChain(chain_id, effect_id) ==
    /\ IF chain_id \notin DOMAIN chains
       THEN /\ result' = [op |-> "remove_effect_from_chain", err |-> "EffectNotFound"]
            /\ UNCHANGED <<chains, heap>>
       ELSE \E r \in {remove_effect(chains[chain_id], heap, effect_id)} :
            /\ chains' = [chains EXCEPT ![chain_id] = r.chain]
            /\ heap' = Collect(chains', r.heap)
            /\ result' = [op |-> "remove_effect_from_chain",
                          err |-> IF r.ret THEN "OK" ELSE "EffectNotFound"]
    /\ UNCHANGED <<current, chain_ids, effectVars, storeVars, presetVars, concVars>>

\* EffectsManager.reorder_effects(chain_id, {"effect_ids": effect_ids})
ReorderEffects(chain_id, effect_ids) ==
    /\ IF chain_id \notin DOMAIN chains
       THEN /\ result' = [op |-> "reorder_effects", err |-> "ChainNotFound"]
            /\ UNCHANGED <<chains, heap>>
       ELSE \E r \in {reorder_effects(chains[chain_id], heap, effect_ids)} :
            /\ chains' = [chains EXCEPT ![chain_id] = r.chain]
            /\ heap' = Collect(chains', r.heap)
            /\ result' = [op |-> "reorder_effects",
                          err |-> IF r.err = "OK" THEN "OK" ELSE "InvalidReorderConfig"]
    /\ UNCHANGED <<current, chain_ids, effectVars, storeVars, presetVars, concVars>>

\* delete_chain without the replacement of the current chain
DeleteChain_KeepCurrent(chain_id) ==
    /\ chain_id \in DOMAIN chains
    /\ chains' = [i \in DOMAIN chains \ {chain_id} |-> chains[i]]
    /\ heap' = Collect(chains', heap)
    /\ result' = [op |-> "delete_chain", err |-> "OK", id |-> chain_id,
                  was_current |-> current = chain_id]
    /\ UNCHANGED <<current, chain_ids, effectVars, storeVars, presetVars, concVars>>

\* EffectsManager.delete_chain(chain_id). The test "self._current_chain and
\* self._current_chain.id == chain_id" takes the truth value of the chain
\* object, which is its __len__: a current chain without effects is false,
\* so it is deleted with no replacement and the current pointer keeps the
\* deleted chain (an id that is no longer in the mapping).
DeleteChain(chain_id) ==
    /\ IF chain_id \notin DOMAIN chains
       THEN /\ result' = [op |-> "delete_chain", err |-> "False", id |-> chain_id,
                          was_current |-> FALSE]
            /\ UNCHANGED <<chains, current, chain_ids, heap>>
       ELSE /\ IF current = chain_id /\ Len(chains[chain_id].effects) > 0
               THEN IF Cardinality(DOMAIN chains) > 1
                    THEN /\ current' = MinId(DOMAIN chains \ {chain_id})
                         /\ chains' = [i \in DOMAIN chains \ {chain_id} |-> chains[i]]
                         /\ UNCHANGED chain_ids
                    ELSE /\ chain_ids < MaxChainIds
                         /\ current' = chain_ids + 1
                         /\ chain_ids' = chain_ids + 1
                         /\ chains' = [i \in {chain_ids + 1} |->
                                          EffectsChain_init("Default Chain").chain]
               ELSE /\ chains' = [i \in DOMAIN chains \ {chain_id} |-> chains[i]]
                    /\ UNCHANGED <<current, chain_ids>>
            /\ heap' = Collect(chains', heap)
            /\ result' = [op |-> "delete_chain", err |-> "OK", id |-> chain_id,
                          was_current |-> current = chain_id]
    /\ UNCHANGED <<effectVars, storeVars, presetVars, concVars>>

\* set_current_chain without the membership test
SetCurrentChain_Unchecked(chain_id) ==
    /\ current' = chain_id
    /\ result' = [op |-> "set_current_chain", err |-> "OK", id |-> chain_id]
    /\ UNCHANGED <<chains, heap, chain_ids, effectVars, storeVars, presetVars, concVars>>

\* EffectsManager.set_current_chain(chain_id)
SetCurrentChain(chain_id) ==
    /\ IF chain_id \notin DOMAIN chains
       THEN /\ result' = [op |-> "set_current_chain", err |-> "False", id |-> chain_id]
            /\ UNCHANGED current
       ELSE /\ current' = chain_id
            /\ result' = [op |-> "set_current_chain", err |-> "OK", id |-> chain_id]
    /\ UNCHANGED <<chains, heap, chain_ids, effectVars, storeVars, presetVars, concVars>>

\* EffectsManager.__init__: one empty chain "Default Chain", which is current
Init ==
    /\ chains = [i \in {1} |-> EffectsChain_init("Default Chain").chain]
    /\ current = 1
    /\ heap = << >>
    /\ chain_ids = 1
    /\ result = NoCall
    /\ EffectIdle /\ StoreIdle /\ PresetIdle /\ ConcIdle

\* chain ids a caller can pass: every id handed out, and one never handed out
ChainIdArgs == 1..(MaxChainIds + 1)

Next ==
    \/ \E cfg \in ChainConfigs : CreateChain(cfg)
    \/ \E c \in ChainIdArgs, cfg \in UpdateConfigs : UpdateChain(c, cfg)
    \/ \E c \in ChainIdArgs, cfg \in EffectConfigs : AddEffectToChain(c, cfg)
    \/ \E c \in ChainIdArgs, e \in 1..(MaxManagerEffects + 1) : RemoveEffectFromChain(c, e)
    \/ \E c \in ChainIdArgs,
          l \in UNION {[1..n -> 1..(MaxManagerEffects + 1)] : n \in 0..MaxOrderLen} :
             ReorderEffects(c, l)
    \/ \E c \in ChainIdArgs : DeleteChain(c)
    \/ \E c \in ChainIdArgs : SetCurrentChain(c)

Spec == Init /\ [][Next]_vars

\* C4: in every state reached by Manager operations the chain mapping is
\* non-empty and the current chain is one of the chains in the mapping.
C4_CurrentChainRegistered == DOMAIN chains # {} /\ current \in DOMAIN chains

\* C4 witness: the only chain was deleted and a fresh default chain is current
C4_Witness ==
    /\ result.op = "delete_chain" /\ result.err = "OK"
    /\ DOMAIN chains = {current}
    /\ chains[current].name = "Default Chain"
    /\ current # 1

----------------------------------------------------------------------------
(* Preset: src/models/preset.py                                            *)
(* A preset is [id, name, description, tags, effects_chain_config]; the     *)
(* description is "None" or a string, tags is a list of strings.            *)

\* re.match(r'^[a-zA-Z0-9_-]+$', tag), for the tags used
TagMatches(tag) ==
    CASE tag = "rock" -> TRUE
      [] tag = "lead_1" -> TRUE
      [] tag = "bad tag!" -> FALSE

\* length of the strings used as descriptions ("D501" stands for 501 characters)
DescLen(d) ==
    CASE d = "warm" -> 4
      [] d = "D501" -> 501

\* Preset.__init__: the error of the first check that fails, or "OK"
Preset_validate(name, description, tags) ==
    IF StrLen(name) < 1 \/ StrLen(name) > 100 THEN "InvalidPresetMetadata"
    ELSE IF description # "None" /\ DescLen(description) > 500 THEN "InvalidPresetMetadata"
    ELSE IF \E i \in 1..Len(tags) : ~TagMatches(tags[i]) THEN "InvalidPresetMetadata"
    ELSE "OK"

\* Preset.__init__ with the id uuid4 gives it
Preset_init(id, name, config, description, tags) ==
    [err |-> Preset_validate(name, description, tags),
     preset |-> [id |-> id, name |-> name, description |-> description, tags |-> tags,
                 effects_chain_config |-> config]]

\* Preset.to_dict / to_json: the record written to the preset's file; the id
\* is written as its string
to_dict(p) ==
    [id |-> [str |-> p.id], name |-> p.name, description |-> p.description, tags |-> p.tags,
     effects_chain_config |-> p.effects_chain_config]

\* Preset.from_dict / from_json: data["name"] and data["effects_chain_config"]
\* raise KeyError when the record lacks them; the constructor runs on the
\* record's fields, then the id is parsed from the record's string
from_dict(d) ==
    IF "name" \notin DOMAIN d \/ "effects_chain_config" \notin DOMAIN d
    THEN [err |-> "KeyError"]
    ELSE Preset_init(d.id.str, d.name, d.effects_chain_config, d.description, d.tags)

\* Preset.update: an absent (or None) argument has its has_ field FALSE; the
\* fields are checked and assigned in turn, so a failure keeps the fields
\* assigned before it. touched says whether modified_at was refreshed.
Preset_update(p, u) ==
    IF u.has_name /\ (StrLen(u.name) < 1 \/ StrLen(u.name) > 100)
    THEN [err |-> "InvalidPresetMetadata", preset |-> p, touched |-> FALSE]
    ELSE The({
      IF u.has_description /\ DescLen(u.description) > 500
      THEN [err |-> "InvalidPresetMetadata", preset |-> p1, touched |-> FALSE]
      ELSE The({
        IF u.has_tags /\ \E i \in 1..Len(u.tags) : ~TagMatches(u.tags[i])
        THEN [err |-> "InvalidPresetMetadata", preset |-> p2, touched |-> FALSE]
        ELSE [err |-> "OK", touched |-> TRUE,
              preset |-> [p2 EXCEPT
                 !.tags = IF u.has_tags THEN u.tags ELSE @,
                 !.effects_chain_config = IF u.has_config THEN u.effects_chain_config ELSE @]]
        : p2 \in {IF u.has_description THEN [p1 EXCEPT !.description = u.description] ELSE p1}})
      : p1 \in {IF u.has_name THEN [p EXCEPT !.name = u.name] ELSE p}})

----------------------------------------------------------------------------
(* Preset store: src/services/preset_manager.py                            *)
(* presets is _presets (id -> Preset object), preset_names is _preset_names *)
(* (name -> id), files is the presets directory (id -> the record in        *)
(* <id>.json). A write or an unlink can fail: the action's io argument is   *)
(* whether it succeeds.                                                     *)

\* d[k] = v and del d[k] on a dict held as a function
DictPut(d, k, v) == [x \in (DOMAIN d) \cup {k} |-> IF x = k THEN v ELSE d[x]]
DictDel(d, k) == [x \in (DOMAIN d) \ {k} |-> d[x]]

\* most preset ids handed out in one run
MaxPresetIds == 2

\* preset names the calls use: two valid names and the empty string
PresetNames == {"A", "B", ""}

\* configurations passed to save_preset: an absent key has its has_ field FALSE
SaveConfigs ==
    {c \in [has_name : BOOLEAN, name : PresetNames, has_config : BOOLEAN,
            effects_chain_config : {"cfgA"}, description : {"None"},
            tags : {<< >>, <<"bad tag!">>}] :
        /\ ~c.has_name => c.name = ""
        /\ (~c.has_name \/ ~c.has_config) => c.tags = << >>}

\* PresetManager.save_preset(preset_config)
SavePreset(c, io) ==
    /\ \E id \in {preset_ids + 1} :
       \E p \in {Preset_init(id, c.name, c.effects_chain_config, c.description, c.tags)} :
       \E err \in {IF ~c.has_name \/ ~c.has_config THEN "InvalidPresetData"
                   ELSE IF c.name \in DOMAIN preset_names THEN "DuplicateName"
                   ELSE IF p.err # "OK" THEN "SaveFailed"
                   ELSE IF ~io THEN "SaveFailed"
                   ELSE "OK"} :
          /\ files' = IF err = "OK" THEN DictPut(files, id, to_dict(p.preset)) ELSE files
          /\ presets' = IF err = "OK" THEN DictPut(presets, id, p.preset) ELSE presets
          /\ preset_names' = IF err = "OK" THEN DictPut(preset_names, c.name, id)
                             ELSE preset_names
          /\ err = "OK" => preset_ids < MaxPresetIds
          /\ preset_ids' = IF err = "OK" THEN id ELSE preset_ids
          /\ sres' = [op |-> "save", err |-> err, has_name |-> c.has_name, name |-> c.name,
                      has_config |-> c.has_config,
                      io_failed |-> (c.has_name /\ c.has_config
                                     /\ c.name \notin DOMAIN preset_names
                                     /\ p.err = "OK" /\ ~io)]
    /\ UNCHANGED <<effectVars, managerVars, presetVars, concVars>>

\* PresetManager._load_from_file(preset_id): the preset read, or found FALSE
\* when there is no file or the record does not parse
load_from_file(preset_id) ==
    IF preset_id \notin DOMAIN files THEN [found |-> FALSE]
    ELSE The({IF p.err # "OK" THEN [found |-> FALSE]
              ELSE [found |-> TRUE, preset |-> p.preset]
              : p \in {from_dict(files[preset_id])}})

\* PresetManager.get_preset(preset_id)
GetPreset(preset_id) ==
    /\ IF preset_id \in DOMAIN presets
       THEN /\ sres' = [op |-> "get", err |-> "OK", io_failed |-> FALSE]
            /\ UNCHANGED <<presets, preset_names>>
       ELSE \E l \in {load_from_file(preset_id)} :
            IF l.found
            THEN /\ presets' = DictPut(presets, l.preset.id, l.preset)
                 /\ preset_names' = DictPut(preset_names, l.preset.name, l.preset.id)
                 /\ sres' = [op |-> "get", err |-> "OK", io_failed |-> FALSE]
            ELSE /\ sres' = [op |-> "get", err |-> "PresetNotFound", io_failed |-> FALSE]
                 /\ UNCHANGED <<presets, preset_names>>
    /\ UNCHANGED <<files, preset_ids, effectVars, managerVars, presetVars, concVars>>

\* update configurations passed to update_preset: a name or none, a tag list
\* that fails or none, a configuration or none; no description
UpdateConfigsP ==
    {u \in [has_name : BOOLEAN, name : PresetNames, has_description : {FALSE},
            description : {"D501"}, has_tags : BOOLEAN, tags : {<<"bad tag!">>},
            has_config : BOOLEAN, effects_chain_config : {"cfgB"}] :
        ~u.has_name => u.name = ""}

\* the outcome of update_preset as the action records it: the error, whether
\* the write was tried and failed, the id and the name supplied, and whether
\* the other fields supplied are valid
UpdateResult(err, io_failed, preset_id, u) ==
    [op |-> "update", err |-> err, io_failed |-> io_failed, id |-> preset_id,
     has_name |-> u.has_name, name |-> u.name,
     rest_valid |-> ~u.has_description /\ ~u.has_tags]

\* PresetManager.update_preset(preset_id, update_config)
UpdatePreset(preset_id, u, io) ==
    /\ IF preset_id \notin DOMAIN presets
       THEN /\ sres' = UpdateResult("PresetNotFound", FALSE, preset_id, u)
            /\ UNCHANGED <<presets, preset_names, files>>
       ELSE \E p \in {presets[preset_id]} :
            \E rename \in {u.has_name /\ u.name # p.name} :
            IF rename /\ u.name \in DOMAIN preset_names /\ preset_names[u.name] # preset_id
            THEN /\ sres' = UpdateResult("DuplicateName", FALSE, preset_id, u)
                 /\ UNCHANGED <<presets, preset_names, files>>
            ELSE IF rename /\ p.name \notin DOMAIN preset_names
            THEN \* del self._preset_names[preset.name] raises KeyError
                 /\ sres' = UpdateResult("KeyError", FALSE, preset_id, u)
                 /\ UNCHANGED <<presets, preset_names, files>>
            ELSE \E r \in {Preset_update(p, u)} :
                 /\ preset_names' = IF rename
                                    THEN DictPut(DictDel(preset_names, p.name), u.name, preset_id)
                                    ELSE preset_names
                 /\ presets' = [presets EXCEPT ![preset_id] = r.preset]
                 /\ files' = IF r.err = "OK" /\ io
                             THEN DictPut(files, preset_id, to_dict(r.preset))
                             ELSE files
                 /\ sres' = UpdateResult(IF r.err = "OK" /\ io THEN "OK" ELSE "InvalidPresetData",
                                         r.err = "OK" /\ ~io, preset_id, u)
    /\ UNCHANGED <<preset_ids, effectVars, managerVars, presetVars, concVars>>

\* PresetManager.delete_preset(preset_id) on the given store state: the
\* unlink, then del _presets[id], then del _preset_names[name], which raises
\* KeyError (reported as DeleteFailed) when the name is not indexed
delete_preset(ps, names, fs, preset_id, io) ==
    IF preset_id \notin DOMAIN ps
    THEN [err |-> "PresetNotFound", presets |-> ps, preset_names |-> names, files |-> fs,
          io_failed |-> FALSE]
    ELSE IF preset_id \in DOMAIN fs /\ ~io
    THEN [err |-> "DeleteFailed", presets |-> ps, preset_names |-> names, files |-> fs,
          io_failed |-> TRUE]
    ELSE IF ps[preset_id].name \notin DOMAIN names
    THEN [err |-> "DeleteFailed", presets |-> DictDel(ps, preset_id), preset_names |-> names,
          files |-> DictDel(fs, preset_id), io_failed |-> FALSE]
    ELSE [err |-> "OK", presets |-> DictDel(ps, preset_id),
          preset_names |-> DictDel(names, ps[preset_id].name),
          files |-> DictDel(fs, preset_id), io_failed |-> FALSE]

\* PresetManager.delete_preset(preset_id)
DeletePreset(preset_id, io) ==
    /\ \E r \in {delete_preset(presets, preset_names, files, preset_id, io)} :
          /\ presets' = r.presets
          /\ preset_names' = r.preset_names
          /\ files' = r.files
          /\ sres' = [op |-> "delete", err |-> r.err, io_failed |-> r.io_failed,
                      id |-> preset_id]
    /\ UNCHANGED <<preset_ids, effectVars, managerVars, presetVars, concVars>>

\* records an import file can hold: a preset record, or a JSON value that is
\* not an object
ImportRecord(name) ==
    [id |-> [str |-> 0], name |-> name, description |-> "None", tags |-> << >>,
     effects_chain_config |-> "cfgA"]
NotADict == [json |-> "string"]

\* a record with a tag outside the allowed pattern, and a record without "name"
BadTagRecord == [ImportRecord("B") EXCEPT !.tags = <<"bad tag!">>]
NoNameRecord ==
    [id |-> [str |-> 0], description |-> "None", tags |-> << >>, effects_chain_config |-> "cfgA"]

\* the loop body without the count of the records it skips
import_one_SkipUncounted(st, rec, overwrite, io) ==
    IF rec = NotADict
    THEN \* from_dict raises, and so does preset_data.get in the handler
         [st EXCEPT !.abort = TRUE]
    ELSE The({
      IF p.err # "OK" THEN [st EXCEPT !.errors = @ + 1]
      ELSE IF p.preset.name \in DOMAIN st.preset_names /\ ~overwrite
      THEN st
      ELSE The({
        IF d.err # "OK"
        THEN [st EXCEPT !.presets = d.presets, !.preset_names = d.preset_names,
                        !.files = d.files, !.errors = @ + 1,
                        !.io_failed = @ \/ d.io_failed,
                        !.unlink_failed = @ \/ d.io_failed]
        ELSE IF ~io.write
        THEN [st EXCEPT !.presets = d.presets, !.preset_names = d.preset_names,
                        !.files = d.files, !.errors = @ + 1, !.io_failed = TRUE]
        ELSE The({
           [st EXCEPT !.presets = DictPut(d.presets, id, q),
                      !.preset_names = DictPut(d.preset_names, q.name, id),
                      !.files = DictPut(d.files, id, to_dict(q)),
                      !.preset_ids = id,
                      !.imported = @ + 1]
           : q \in {[p.preset EXCEPT !.id = id]}})
        : d \in {IF p.preset.name \in DOMAIN st.preset_names
                 THEN delete_preset(st.presets, st.preset_names, st.files,
                                    st.preset_names[p.preset.name], io.unlink)
                 ELSE [err |-> "OK", presets |-> st.presets,
                       preset_names |-> st.preset_names, files |-> st.files,
                       io_failed |-> FALSE]},
          id \in {st.preset_ids + 1}})
      : p \in {from_dict(rec)}})

\* one pass of the loop body of import_presets on the store state st; io says
\* whether an unlink and a write succeed
import_one(st, rec, overwrite, io) ==
    IF rec = NotADict
    THEN \* from_dict raises, and so does preset_data.get in the handler
         [st EXCEPT !.abort = TRUE]
    ELSE The({
      IF p.err # "OK" THEN [st EXCEPT !.errors = @ + 1]
      ELSE IF p.preset.name \in DOMAIN st.preset_names /\ ~overwrite
      THEN [st EXCEPT !.skipped = @ + 1]
      ELSE The({
        IF d.err # "OK"
        THEN [st EXCEPT !.presets = d.presets, !.preset_names = d.preset_names,
                        !.files = d.files, !.errors = @ + 1,
                        !.io_failed = @ \/ d.io_failed,
                        !.unlink_failed = @ \/ d.io_failed]
        ELSE IF ~io.write
        THEN [st EXCEPT !.presets = d.presets, !.preset_names = d.preset_names,
                        !.files = d.files, !.errors = @ + 1, !.io_failed = TRUE]
        ELSE The({
           [st EXCEPT !.presets = DictPut(d.presets, id, q),
                      !.preset_names = DictPut(d.preset_names, q.name, id),
                      !.files = DictPut(d.files, id, to_dict(q)),
                      !.preset_ids = id,
                      !.imported = @ + 1]
           : q \in {[p.preset EXCEPT !.id = id]}})
        : d \in {IF p.preset.name \in DOMAIN st.preset_names
                 THEN delete_preset(st.presets, st.preset_names, st.files,
                                    st.preset_names[p.preset.name], io.unlink)
                 ELSE [err |-> "OK", presets |-> st.presets,
                       preset_names |-> st.preset_names, files |-> st.files,
                       io_failed |-> FALSE]},
          id \in {st.preset_ids + 1}})
      : p \in {from_dict(rec)}})

\* the for loop of import_presets: an exception that leaves the loop ends it
RECURSIVE import_all(_, _, _, _)
import_all(st, records, overwrite, io) ==
    IF records = << >> \/ st.abort THEN st
    ELSE The({import_all(st2, Tail(records), overwrite, io)
              : st2 \in {import_one(st, Head(records), overwrite, io)}})

\* most records in one import file
MaxBatch == 2

\* the import files tried next to the other store calls
StoreBatches == {<<ImportRecord("A")>>, <<NotADict>>}

\* import files: lists of records
ImportBatches ==
    UNION {[1..n -> {ImportRecord("A"), ImportRecord(""), BadTagRecord, NoNameRecord, NotADict}]
           : n \in 0..MaxBatch}

\* PresetManager.import_presets(import_config) with a file that parses to a list
ImportPresets(records, overwrite, io) ==
    /\ \E r \in {import_all([presets |-> presets, preset_names |-> preset_names,
                             files |-> files, preset_ids |-> preset_ids, imported |-> 0,
                             skipped |-> 0, errors |-> 0, abort |-> FALSE,
                             io_failed |-> FALSE, unlink_failed |-> FALSE],
                            records, overwrite, io)} :
          /\ r.preset_ids <= MaxPresetIds
          /\ presets' = r.presets
          /\ preset_names' = r.preset_names
          /\ files' = r.files
          /\ preset_ids' = r.preset_ids
          /\ sres' = [op |-> "import",
                      err |-> IF r.abort THEN "InvalidImportFile" ELSE "OK",
                      imported |-> r.imported, skipped |-> r.skipped, errors |-> r.errors,
                      io_failed |-> r.io_failed, unlink_failed |-> r.unlink_failed,
                      records |-> records,
                      overwrite |-> overwrite]
    /\ UNCHANGED <<effectVars, managerVars, presetVars, concVars>>

\* a PresetManager on an empty presets directory
InitStore ==
    /\ presets = << >>
    /\ preset_names = << >>
    /\ files = << >>
    /\ preset_ids = 0
    /\ sres = NoCall
    /\ EffectIdle /\ ManagerIdle /\ PresetIdle /\ ConcIdle

PresetIdArgs == 1..(MaxPresetIds + 1)

NextStore ==
    \/ \E c \in SaveConfigs, io \in BOOLEAN : SavePreset(c, io)
    \/ \E id \in PresetIdArgs : GetPreset(id)
    \/ \E id \in PresetIdArgs, u \in UpdateConfigsP, io \in BOOLEAN : UpdatePreset(id, u, io)
    \/ \E id \in PresetIdArgs, io \in BOOLEAN : DeletePreset(id, io)
    \/ \E records \in StoreBatches, overwrite \in BOOLEAN,
          io \in [unlink : BOOLEAN, write : BOOLEAN] : ImportPresets(records, overwrite, io)

SpecStore == InitStore /\ [][NextStore]_vars

\* SpecImport: a store that is filled by save_preset and import_presets only
NextImport ==
    \/ \E c \in SaveConfigs, io \in BOOLEAN : SavePreset(c, io)
    \/ \E records \in ImportBatches, overwrite \in BOOLEAN,
          io \in [unlink : BOOLEAN, write : BOOLEAN] : ImportPresets(records, overwrite, io)

SpecImport == InitStore /\ [][NextImport]_vars

\* C3: after any sequence of save, get, update, delete and import calls, the
\* name index and the id map agree (a name maps to id i exactly when the
\* preset stored under i has that name, and every stored preset's name is
\* indexed), and no two stored presets have the same name.
C3_IndexConsistent ==
    /\ \A n \in DOMAIN preset_names :
          /\ preset_names[n] \in DOMAIN presets
          /\ presets[preset_names[n]].name = n
    /\ \A i \in DOMAIN presets :
          /\ presets[i].name \in DOMAIN preset_names
          /\ preset_names[presets[i].name] = i
    /\ \A i, j \in DOMAIN presets : i # j => presets[i].name # presets[j].name

----------------------------------------------------------------------------
(* SpecPreset: a preset is built, written and read back, and turned into a  *)
(* chain. pin is the preset in hand, pout the outcome of to_effects_chain.  *)

\* a == b on two parameter values
PyEq(a, b) == IsNumeric(a) /\ IsNumeric(b) /\ Num(a) = Num(b)

\* the loop of Preset.to_effects_chain over the effect descriptors
RECURSIVE restore_effects(_, _, _)
restore_effects(chain, h, cfgs) ==
    IF cfgs = << >> THEN [err |-> "OK", chain |-> chain, heap |-> h]
    ELSE LET cfg == Head(cfgs) IN The({
      IF e.err # "OK" THEN [err |-> e.err, chain |-> chain, heap |-> h]
      ELSE The({
        IF r.err # "OK" THEN [err |-> r.err, chain |-> chain, heap |-> h]
        ELSE The({restore_effects(c2, h2, Tail(cfgs)) : c2 \in {r.chain}, h2 \in {r.heap}})
        : r \in {add_effect(chain,
                            Store(h, [e EXCEPT
                               !.bypassed = IF cfg.has_bypassed THEN cfg.bypassed ELSE FALSE,
                               !.preset_name = IF cfg.has_preset_name THEN cfg.preset_name
                                               ELSE @]),
                            NewRef(h))}})
      : e \in {AudioEffect_init(cfg.type, cfg.parameters)}})

\* Preset.to_effects_chain() with the effect objects made in the heap h: the
\* chain and the heap, or the error raised
to_effects_chain_in(p, h) ==
    The({IF c.err # "OK" THEN [err |-> c.err]
         ELSE restore_effects(c.chain, h, p.effects_chain_config.effects)
         : c \in {EffectsChain_init(p.name)}})

\* Preset.to_effects_chain(): the chain and the objects of its effects, or the
\* error raised
to_effects_chain(p) == to_effects_chain_in(p, << >>)

\* most effect descriptors in a preset configuration drawn freely
MaxPresetEffects == 2

\* effect descriptors: a bare kind, one with a parameter and the bypass flag,
\* one as from_effects_chain writes it, and one with a value out of range
PresetEffectConfigs ==
    {EffectConfig("BOOST", << >>, FALSE, FALSE),
     EffectConfig("DELAY", << <<"tempo_sync", IntV(1)>> >>, TRUE, TRUE),
     EffectConfig("BOOST", << <<"gain_db", Float(1000)>>, <<"tone", Float(50)>> >>, TRUE, FALSE),
     EffectConfig("BOOST", << <<"gain_db", Float(3100)>> >>, FALSE, FALSE)}

\* a configuration with one descriptor more than a chain can hold
OverfullEffects == [i \in 1..(MAX_EFFECTS + 1) |-> EffectConfig("BOOST", << >>, FALSE, FALSE)]

\* effects_chain_config values: the chain name snapshotted and the descriptors
PresetConfigs ==
    [name : {"Lead"},
     effects : UNION {[1..n -> PresetEffectConfigs] : n \in 0..MaxPresetEffects}
               \cup {OverfullEffects}]

\* preset names tried by the constructor
PresetNameArgs == {"", "A", "N50", "N51", "N100", "N101"}

\* Preset(name, effects_chain_config)
NewPreset(name, config) ==
    /\ \E p \in {Preset_init(1, name, config, "None", << >>)} :
          pin' = [op |-> "Preset", err |-> p.err, preset |-> p.preset, source |-> p.preset]
    /\ pout' = NoCall
    /\ UNCHANGED <<effectVars, managerVars, storeVars, concVars>>

\* Preset.from_json(preset.to_json()) on the preset in hand
Roundtrip ==
    /\ pin.op # "none" /\ pin.err = "OK"
    /\ \E p \in {from_dict(to_dict(pin.preset))} :
          pin' = [op |-> "from_dict", err |-> p.err, preset |-> p.preset,
                  source |-> pin.source]
    /\ pout' = NoCall
    /\ UNCHANGED <<effectVars, managerVars, storeVars, concVars>>

\* preset.to_effects_chain() on the preset in hand
ToEffectsChain ==
    /\ pin.op # "none" /\ pin.err = "OK"
    /\ \E r \in {to_effects_chain(pin.preset)} :
          pout' = [op |-> "to_effects_chain", err |-> r.err,
                   effects |-> IF r.err = "OK"
                               THEN [i \in 1..Len(r.chain.effects) |-> r.heap[r.chain.effects[i]]]
                               ELSE << >>,
                   name |-> IF r.err = "OK" THEN r.chain.name ELSE "None"]
    /\ UNCHANGED <<pin, effectVars, managerVars, storeVars, concVars>>

InitPreset ==
    /\ pin = NoCall
    /\ pout = NoCall
    /\ EffectIdle /\ ManagerIdle /\ StoreIdle /\ ConcIdle

NextPreset ==
    \/ \E name \in PresetNameArgs, config \in PresetConfigs : NewPreset(name, config)
    \/ Roundtrip
    \/ ToEffectsChain

SpecPreset == InitPreset /\ [][NextPreset]_vars

\* a descriptor the effect constructor accepts
ValidDescriptor(cfg) == AudioEffect_init(cfg.type, cfg.parameters).err = "OK"

\* the restored effect e has the descriptor's kind, bypass flag and parameters
MatchesDescriptor(e, cfg) ==
    /\ e.type = cfg.type
    /\ e.bypassed = (IF cfg.has_bypassed THEN cfg.bypassed ELSE FALSE)
    /\ \A i \in 1..Len(cfg.parameters) :
          PyEq(e.parameters[cfg.parameters[i][1]], cfg.parameters[i][2])

\* C6: for a preset P with a valid name and valid effect descriptors,
\* deserialize(serialize(P)).toChain() succeeds and returns a chain whose
\* effects equal those of P's configuration in kind, parameters, bypassed and
\* order.
C6_RoundtripRestoresEffects ==
    (/\ pin.op = "from_dict"
     /\ pout.op = "to_effects_chain"
     /\ \A i \in 1..Len(pin.source.effects_chain_config.effects) :
           ValidDescriptor(pin.source.effects_chain_config.effects[i]))
    => /\ pout.err = "OK"
       /\ Len(pout.effects) = Len(pin.source.effects_chain_config.effects)
       /\ \A i \in 1..Len(pout.effects) :
             MatchesDescriptor(pout.effects[i], pin.source.effects_chain_config.effects[i])

\* C7: toChain() on a valid preset (a name of 1 to 100 characters, at most
\* MAX_EFFECTS descriptors, each of them valid) returns a chain named after
\* the preset, whatever chain name the snapshot holds.
C7_ChainNamedAfterPreset ==
    (/\ pout.op = "to_effects_chain"
     /\ Len(pin.preset.effects_chain_config.effects) <= MAX_EFFECTS
     /\ \A i \in 1..Len(pin.preset.effects_chain_config.effects) :
           ValidDescriptor(pin.preset.effects_chain_config.effects[i]))
    => (pout.err = "OK" /\ pout.name = pin.preset.name)

----------------------------------------------------------------------------
(* SpecConc: the audio engine and the control path share one chain object.  *)
(* chains[1] and heap hold the chain and its effects; the control thread    *)
(* (ctl) runs set_effects_chain, remove_effect, reorder_effects and         *)
(* update_parameters a statement at a time; the render thread (engine.seen) *)
(* runs between any two statements, as Python lets threads switch between   *)
(* any two bytecodes.                                                       *)

\* effects in the shared chain at the start
MaxConcEffects == 2

\* the chain after add_effect of n new BOOST effects, with their objects
RECURSIVE ChainOf(_, _)
ChainOf(n, r) ==
    IF n = 0 THEN r
    ELSE The({ChainOf(n - 1, add_effect(r.chain, h, NewRef(r.heap)))
              : h \in {Allocate(r.heap, "BOOST")}})

\* AudioEngine.__init__: no chain, no pedalboard; the lock is free; nothing
\* rendered yet
AudioEngine_init ==
    [effects_chain |-> 0, pedalboard |-> << >>, audio_lock |-> FALSE,
     seen |-> [reader |-> "none"]]

\* the control thread between two calls
CtlIdle == [pc |-> "idle", before |-> << >>, k |-> 0, effect |-> 0, rest |-> << >>]

\* AudioEngine._setup_effects_chain: the ids of the effects not bypassed, in order
setup_effects_chain(effects, h) ==
    LET keep == {i \in 1..Len(effects) : ~h[effects[i]].bypassed}
        RECURSIVE pick(_)
        pick(i) == IF i > Len(effects) THEN << >>
                   ELSE IF i \in keep THEN <<h[effects[i]].id>> \o pick(i + 1)
                   ELSE pick(i + 1)
    IN pick(1)

\* set_effects_chain: with self._audio_lock, self._effects_chain = effects_chain
InstallBegin ==
    /\ ctl.pc = "idle" /\ ~engine.audio_lock
    /\ engine' = [engine EXCEPT !.audio_lock = TRUE, !.effects_chain = 1]
    /\ ctl' = [ctl EXCEPT !.pc = "install"]
    /\ UNCHANGED <<chains, heap, current, chain_ids, result,
                   effectVars, storeVars, presetVars>>

\* set_effects_chain: self._setup_effects_chain(), and the lock is released
InstallEnd ==
    /\ ctl.pc = "install"
    /\ engine' = [engine EXCEPT !.audio_lock = FALSE,
                                !.pedalboard = setup_effects_chain(chains[1].effects, heap)]
    /\ ctl' = CtlIdle
    /\ UNCHANGED <<chains, heap, current, chain_ids, result,
                   effectVars, storeVars, presetVars>>

\* chain.remove_effect(effect_id) up to self.effects.pop(i); a miss returns False
RemoveBegin(effect_id) ==
    /\ ctl.pc = "idle"
    /\ \E i \in {IndexOfId(chains[1].effects, heap, effect_id)} :
          IF i = 0 THEN UNCHANGED <<chains, ctl>>
          ELSE /\ chains' = [chains EXCEPT ![1].effects = RemoveAt(@, i)]
               /\ ctl' = [CtlIdle EXCEPT !.pc = "positions", !.before = chains[1].effects,
                                         !.k = 1]
    /\ UNCHANGED <<heap, engine, current, chain_ids, result,
                   effectVars, storeVars, presetVars>>

\* chain.reorder_effects(effect_ids) up to self.effects = new_effects; a list
\* that fails a check raises
ReorderBegin(effect_ids) ==
    /\ ctl.pc = "idle"
    /\ IF \/ Len(effect_ids) # Len(chains[1].effects)
          \/ \E k \in 1..Len(effect_ids) : IndexOfId(chains[1].effects, heap, effect_ids[k]) = 0
       THEN UNCHANGED <<chains, ctl>>
       ELSE /\ chains' = [chains EXCEPT ![1].effects = NewEffects(@, heap, effect_ids)]
            /\ ctl' = [CtlIdle EXCEPT !.pc = "positions", !.before = chains[1].effects,
                                      !.k = 1]
    /\ UNCHANGED <<heap, engine, current, chain_ids, result,
                   effectVars, storeVars, presetVars>>

\* one pass of the loop of _update_positions: effect.set_position(i); after
\* the last one the call returns
SetPosition ==
    /\ ctl.pc = "positions"
    /\ IF ctl.k > Len(chains[1].effects)
       THEN /\ ctl' = CtlIdle
            /\ UNCHANGED heap
       ELSE /\ heap' = [heap EXCEPT ![chains[1].effects[ctl.k]].position = ctl.k - 1]
            /\ ctl' = [ctl EXCEPT !.k = @ + 1]
    /\ UNCHANGED <<chains, engine, current, chain_ids, result,
                   effectVars, storeVars, presetVars>>

\* parameter updates the control path sends: two keys that pass, and two keys
\* of which the second is out of range
ConcUpdates ==
    {<< <<"gain_db", IntV(1)>>, <<"tone", Float(100)>> >>,
     << <<"gain_db", IntV(2)>>, <<"tone", Float(3100)>> >>}

\* effect.update_parameters(new_parameters) is called on an effect of the chain
UpdateBegin(e, updates) ==
    /\ ctl.pc = "idle"
    /\ e \in DOMAIN heap
    /\ ctl' = [CtlIdle EXCEPT !.pc = "update", !.before = chains[1].effects,
                              !.effect = e, !.rest = updates]
    /\ UNCHANGED <<chains, heap, engine, current, chain_ids, result,
                   effectVars, storeVars, presetVars>>

\* one pass of the loop of update_parameters: the key is checked and stored,
\* or the call raises; after the last key the call returns
UpdateKey ==
    /\ ctl.pc = "update"
    /\ IF ctl.rest = << >>
       THEN /\ ctl' = CtlIdle
            /\ UNCHANGED heap
       ELSE \E name \in {Head(ctl.rest)[1]}, value \in {Head(ctl.rest)[2]} :
            \E err \in {ValidateEntry(heap[ctl.effect].type, name, value)} :
               IF err # "OK"
               THEN /\ ctl' = CtlIdle
                    /\ UNCHANGED heap
               ELSE /\ heap' = [heap EXCEPT ![ctl.effect].parameters =
                                   DictSet(@, name,
                                           StoredValue(heap[ctl.effect].type, name, value))]
                    /\ ctl' = [ctl EXCEPT !.rest = Tail(@)]
    /\ UNCHANGED <<chains, engine, current, chain_ids, result,
                   effectVars, storeVars, presetVars>>

\* what a reader of self._effects_chain.effects finds: each effect's id and
\* position, with the chain's sequence of ids before and after the control
\* call in progress (both the present one when no call is in progress)
Observe(reader) ==
    [reader |-> reader,
     effects |-> [i \in 1..Len(chains[1].effects) |->
                     [id |-> heap[chains[1].effects[i]].id,
                      position |-> heap[chains[1].effects[i]].position]],
     before |-> IF ctl.pc \in {"positions", "update"} THEN ctl.before ELSE chains[1].effects,
     after |-> chains[1].effects]

\* AudioEngine.process_frame reads self._effects_chain and its effects; it
\* takes no lock
ProcessFrame ==
    /\ engine.effects_chain # 0
    /\ engine' = [engine EXCEPT !.seen = Observe("process_frame")]
    /\ UNCHANGED <<ctl, chains, heap, current, chain_ids, result,
                   effectVars, storeVars, presetVars>>

\* the stream's audio_callback reads self._effects_chain and its effects; it
\* takes no lock
AudioCallback ==
    /\ engine.effects_chain # 0
    /\ engine' = [engine EXCEPT !.seen = Observe("audio_callback")]
    /\ UNCHANGED <<ctl, chains, heap, current, chain_ids, result,
                   effectVars, storeVars, presetVars>>

InitConc ==
    /\ \E r \in {ChainOf(MaxConcEffects,
                         [chain |-> EffectsChain_init("Lead").chain, heap |-> << >>])} :
          /\ chains = [c \in {1} |-> r.chain]
          /\ heap = r.heap
    /\ current = 0
    /\ chain_ids = 1
    /\ result = NoCall
    /\ engine = AudioEngine_init
    /\ ctl = CtlIdle
    /\ EffectIdle /\ StoreIdle /\ PresetIdle

ConcOrderLists == UNION {[1..n -> 1..MaxConcEffects] : n \in 1..MaxConcEffects}

NextConc ==
    \/ InstallBegin
    \/ InstallEnd
    \/ \E i \in 1..(MaxConcEffects + 1) : RemoveBegin(i)
    \/ \E l \in ConcOrderLists : ReorderBegin(l)
    \/ SetPosition
    \/ \E e \in 1..MaxConcEffects, u \in ConcUpdates : UpdateBegin(e, u)
    \/ UpdateKey
    \/ ProcessFrame
    \/ AudioCallback

SpecConc == InitConc /\ [][NextConc]_vars

\* C5: a render-path read of the installed chain, interleaved at any point
\* with a control-path remove, reorder or multi-key parameter update, finds
\* position = index for every effect and a sequence of effects equal to the
\* one before or the one after the control call.
C5_RenderSeesConsistentChain ==
    engine.seen.reader # "none" =>
       /\ \A i \in 1..Len(engine.seen.effects) : engine.seen.effects[i].position = i - 1
       /\ [i \in 1..Len(engine.seen.effects) |-> engine.seen.effects[i].id]
             \in {engine.seen.before, engine.seen.after}

----------------------------------------------------------------------------
(* SpecFull: one chain filled up to its capacity. The caller creates BOOST  *)
(* effects and adds them, keeping a reference to the first one only, which *)
(* it removes and adds again; it reverses the order, passes a list that is  *)
(* too short, and clears the chain. (Lists with a repeated id are the       *)
(* business of SpecChain.)                                                  *)

\* EffectsChain.clear_effects(): the objects keep their fields
clear_effects(chain, h) ==
    [err |-> "OK", chain |-> [chain EXCEPT !.effects = << >>], heap |-> h, touched |-> TRUE]

\* most AudioEffect objects the caller creates: one more than a chain holds
MaxFullObjects == 9

\* the chain's ids in reverse order
Reversed(l) == [i \in 1..Len(l) |-> l[Len(l) + 1 - i]]

\* id lists passed to reorder_effects on the chain in hand
FullOrderLists ==
    LET ids == IdsOf(TheChain.effects, heap)
    IN {Reversed(ids), Tail(ids \o <<0>>)}

\* the heap after the objects neither the chain nor the caller refers to are
\* collected: the caller holds the first object
FullCollect(chain, h) ==
    [o \in DOMAIN h |->
        IF o = 1 \/ \E i \in 1..Len(chain.effects) : chain.effects[i] = o THEN h[o]
        ELSE Freed(o)]

\* the outcome of a call as the action records it
FullResult(op, r, err) ==
    [op |-> op, err |-> err, len_before |-> Len(TheChain.effects), touched |-> r.touched]

\* chain.add_effect(AudioEffect(BOOST))
FullAddNew ==
    /\ Cardinality(DOMAIN heap) < MaxFullObjects
    /\ \E r \in {add_effect(TheChain, Allocate(heap, "BOOST"), NewRef(heap))} :
          /\ chains' = [chains EXCEPT ![1] = r.chain]
          /\ heap' = FullCollect(r.chain, r.heap)
          /\ result' = FullResult("add", r, r.err)
    /\ UNCHANGED <<current, chain_ids, effectVars, storeVars, presetVars, concVars>>

\* chain.add_effect(e) for an effect object the caller already holds
FullAddHeld(e) ==
    /\ e \in DOMAIN heap
    /\ \E r \in {add_effect(TheChain, heap, e)} :
          /\ chains' = [chains EXCEPT ![1] = r.chain]
          /\ heap' = FullCollect(r.chain, r.heap)
          /\ result' = FullResult("add", r, r.err)
    /\ UNCHANGED <<current, chain_ids, effectVars, storeVars, presetVars, concVars>>

\* chain.remove_effect(effect_id)
FullRemove(effect_id) ==
    /\ \E r \in {remove_effect(TheChain, heap, effect_id)} :
          /\ chains' = [chains EXCEPT ![1] = r.chain]
          /\ heap' = FullCollect(r.chain, r.heap)
          /\ result' = FullResult("remove", r, IF r.ret THEN "OK" ELSE "NotFound")
    /\ UNCHANGED <<current, chain_ids, effectVars, storeVars, presetVars, concVars>>

\* chain.reorder_effects(effect_ids)
FullReorder(effect_ids) ==
    /\ \E r \in {reorder_effects(TheChain, heap, effect_ids)} :
          /\ chains' = [chains EXCEPT ![1] = r.chain]
          /\ heap' = FullCollect(r.chain, r.heap)
          /\ result' = FullResult("reorder", r, r.err)
    /\ UNCHANGED <<current, chain_ids, effectVars, storeVars, presetVars, concVars>>

\* chain.clear_effects()
FullClear ==
    /\ \E r \in {clear_effects(TheChain, heap)} :
          /\ chains' = [chains EXCEPT ![1] = r.chain]
          /\ heap' = FullCollect(r.chain, r.heap)
          /\ result' = FullResult("clear", r, r.err)
    /\ UNCHANGED <<current, chain_ids, effectVars, storeVars, presetVars, concVars>>

NextFull ==
    \/ FullAddNew
    \/ \E e \in {1} : FullAddHeld(e)
    \/ \E i \in 0..1 : FullRemove(i)
    \/ \E l \in FullOrderLists : FullReorder(l)
    \/ FullClear

SpecFull == InitChain /\ [][NextFull]_vars

\* C11: a chain never holds more than MAX_EFFECTS effects, and add_effect on
\* a chain that holds MAX_EFFECTS fails with CapacityExceeded and leaves the
\* length at MAX_EFFECTS.
C11_CapacityBound ==
    /\ Len(TheChain.effects) <= MAX_EFFECTS
    /\ (result.op = "add" /\ result.len_before = MAX_EFFECTS)
          => (result.err = "CapacityExceeded" /\ Len(TheChain.effects) = MAX_EFFECTS)

\* a ninth effect was refused on a chain of eight
C11_Witness ==
    /\ result.op = "add"
    /\ result.len_before = MAX_EFFECTS
    /\ result.err = "CapacityExceeded"
    /\ Len(TheChain.effects) = MAX_EFFECTS
    /\ Cardinality(DOMAIN heap) = MAX_EFFECTS + 1

\* the in-memory presets equal what the directory holds: the same ids, each
\* preset equal to its file's record, and the name index exactly the names of
\* the presets on file
MemoryIsDurable ==
    /\ DOMAIN presets = DOMAIN files
    /\ \A i \in DOMAIN presets : to_dict(presets[i]) = files[i]
    /\ DOMAIN preset_names = {files[i].name : i \in DOMAIN files}
    /\ \A i \in DOMAIN files : preset_names[files[i].name] = i

\* the call told its caller of the failure: it raised, or (import) it listed
\* an error
Reported(r) == r.err # "OK" \/ (r.op = "import" /\ r.errors > 0)

\* C12: a store call whose durable write (or unlink) fails reports the
\* failure and leaves the in-memory presets equal to what is persisted.
C12_FailedWriteKeepsMemoryDurable ==
    [][(MemoryIsDurable /\ sres'.io_failed) => (Reported(sres') /\ MemoryIsDurable')]_vars

\* a record import_presets cannot turn into a preset
Malformed(rec) == rec = NotADict \/ from_dict(rec).err # "OK"

\* number of malformed records in a list
RECURSIVE MalformedCount(_)
MalformedCount(records) ==
    IF records = << >> THEN 0
    ELSE (IF Malformed(Head(records)) THEN 1 ELSE 0) + MalformedCount(Tail(records))

\* C13: import_presets over a list of records never aborts because of a bad
\* record: every record is counted, each malformed record adds exactly one
\* error (no other error arises while every write succeeds), and on an empty
\* store the batch of a well-formed record and a record with an invalid tag
\* gives imported 1, skipped 0, one error and only the valid preset stored.
C13_BadRecordDoesNotAbort ==
    [][sres'.op = "import" =>
         /\ sres'.err = "OK"
         /\ sres'.imported + sres'.skipped + sres'.errors = Len(sres'.records)
         /\ ~sres'.io_failed => sres'.errors = MalformedCount(sres'.records)
         /\ (/\ presets = << >>
             /\ sres'.records = <<ImportRecord("A"), BadTagRecord>>
             /\ ~sres'.io_failed)
            => /\ sres'.imported = 1 /\ sres'.skipped = 0 /\ sres'.errors = 1
               /\ {presets'[i].name : i \in DOMAIN presets'} = {"A"}
               /\ Cardinality(DOMAIN presets') = 1]_vars

\* the ids of the stored presets that have the name
IdsNamed(ps, name) == {i \in DOMAIN ps : ps[i].name = name}

\* C14: an import record whose name is in the store is skipped when
\* overwrite_existing is false, leaving the existing preset as it was; with
\* overwrite_existing true (and the existing file's unlink not failing) the
\* existing preset is deleted and the record is stored under a new id, so
\* that exactly one preset has the name and its id is neither the replaced
\* preset's nor the one the record carries.
C14_CollisionSkipOrReplace ==
    [][(/\ sres'.op = "import"
        /\ Len(sres'.records) = 1
        /\ ~Malformed(sres'.records[1])
        /\ sres'.records[1].name \in DOMAIN preset_names
        /\ ~sres'.unlink_failed)
       => IF ~sres'.overwrite
          THEN /\ sres'.skipped = 1 /\ sres'.imported = 0
               /\ presets' = presets /\ preset_names' = preset_names /\ files' = files
          ELSE /\ sres'.imported = 1
               /\ preset_names[sres'.records[1].name] \notin DOMAIN presets'
               /\ \E i \in DOMAIN presets' :
                     /\ IdsNamed(presets', sres'.records[1].name) = {i}
                     /\ i \notin DOMAIN presets
                     /\ i # sres'.records[1].id.str
                     /\ preset_names'[sres'.records[1].name] = i]_vars

\* C15: save_preset with a name that is indexed fails with DuplicateName and
\* changes nothing, and after a save of a valid name (accepted, or refused
\* as a duplicate) exactly one stored preset has that name, the one the name
\* index gives.
C15_DuplicateSaveRefused ==
    [][(sres'.op = "save" /\ sres'.has_name /\ sres'.has_config)
       => /\ sres'.name \in DOMAIN preset_names
             => /\ sres'.err = "DuplicateName"
                /\ presets' = presets /\ preset_names' = preset_names /\ files' = files
          /\ (sres'.err \in {"OK", "DuplicateName"} /\ StrLen(sres'.name) \in 1..100)
             => /\ sres'.name \in DOMAIN preset_names'
                /\ IdsNamed(presets', sres'.name) = {preset_names'[sres'.name]}]_vars

\* C16: update_preset that renames a preset to a name another stored preset
\* has fails with DuplicateName and changes neither a preset nor the name
\* index; a rename to a free valid name (the rest of the patch valid, the
\* write succeeding) succeeds, the old name is no longer indexed and the new
\* name maps to the id.
C16_RenameChecked ==
    [][(/\ sres'.op = "update"
        /\ sres'.id \in DOMAIN presets
        /\ sres'.has_name
        /\ sres'.name # presets[sres'.id].name)
       => /\ IdsNamed(presets, sres'.name) \ {sres'.id} # {}
             => /\ sres'.err = "DuplicateName"
                /\ presets' = presets /\ preset_names' = preset_names /\ files' = files
          /\ (/\ IdsNamed(presets, sres'.name) = {}
              /\ sres'.name \notin DOMAIN preset_names
              /\ StrLen(sres'.name) \in 1..100
              /\ sres'.rest_valid
              /\ ~sres'.io_failed)
             => /\ sres'.err = "OK"
                /\ presets[sres'.id].name \notin DOMAIN preset_names'
                /\ preset_names'[sres'.name] = sres'.id
                /\ presets'[sres'.id].name = sres'.name]_vars

----------------------------------------------------------------------------
(* Serialization of effects and chains                                     *)
(* src/src/models/audio_effect.py, src/src/models/effects_chain.py         *)

\* dict.items() of a parameters dict, as a sequence of <<name, value>>
RECURSIVE Items(_)
Items(d) ==
    IF DOMAIN d = {} THEN << >>
    ELSE LET k == CHOOSE x \in DOMAIN d : TRUE
         IN <<<<k, d[k]>>>> \o Items([x \in (DOMAIN d) \ {k} |-> d[x]])

\* AudioEffect.to_dict of the effect object o: the id goes out as its string
AudioEffect_to_dict(o) ==
    [id |-> [str |-> o.id], type |-> o.type, parameters |-> o.parameters,
     bypassed |-> o.bypassed, position |-> o.position, preset_name |-> o.preset_name]

\* AudioEffect.from_dict that leaves the position of the new object as the
\* constructor set it
AudioEffect_from_dict_NoPosition(d) ==
    LET e == AudioEffect_init(d.type, Items(d.parameters)) IN
    IF e.err # "OK" THEN [err |-> e.err]
    ELSE [err |-> "OK", id |-> d.id.str, type |-> e.type, parameters |-> e.parameters,
          bypassed |-> d.bypassed, position |-> e.position,
          preset_name |-> d.preset_name]

\* AudioEffect.from_dict(data): the constructor runs on the type and the
\* parameters, then id, bypassed, position and preset_name are assigned
AudioEffect_from_dict(d) ==
    LET e == AudioEffect_init(d.type, Items(d.parameters)) IN
    IF e.err # "OK" THEN [err |-> e.err]
    ELSE [err |-> "OK", id |-> d.id.str, type |-> e.type, parameters |-> e.parameters,
          bypassed |-> d.bypassed, position |-> d.position,
          preset_name |-> d.preset_name]

\* EffectsChain.to_dict of the chain with the given id
EffectsChain_to_dict(chain, h, id) ==
    [id |-> [str |-> id], name |-> chain.name,
     effects |-> [i \in 1..Len(chain.effects) |-> AudioEffect_to_dict(h[chain.effects[i]])],
     active |-> chain.active]

\* EffectsChain.from_dict(data): a chain with the name, then id and active
\* assigned, then each effect built by AudioEffect.from_dict and appended
\* to the list; the chain's effects are the new objects themselves
EffectsChain_from_dict(d) ==
    LET c == EffectsChain_init(d.name)
        made == [i \in 1..Len(d.effects) |-> AudioEffect_from_dict(d.effects[i])]
        bad == {i \in 1..Len(d.effects) : made[i].err # "OK"}
    IN IF c.err # "OK" THEN [err |-> c.err]
       ELSE IF bad # {} THEN [err |-> made[CHOOSE i \in bad : \A j \in bad : i <= j].err]
       ELSE [err |-> "OK", id |-> d.id.str, name |-> d.name, active |-> d.active,
             effects |-> made]

\* the setters act on this effect object
SerialObject == 1

\* dicts passed to update_parameters
SerialUpdates ==
    {<<<<"gain_db", Float(500)>>>>, <<<<"gain_db", NaN>>>>, <<<<"tempo_sync", IntV(1)>>>>}

\* effect.set_bypassed(b)
SetBypassed(b) ==
    /\ SerialObject \in DOMAIN heap
    /\ heap' = [heap EXCEPT ![SerialObject].bypassed = b]
    /\ result' = [op |-> "set_bypassed"]
    /\ UNCHANGED <<chains, current, chain_ids, effectVars, storeVars, presetVars, concVars>>

\* effect.set_preset_name(label)
SetPresetName(label) ==
    /\ SerialObject \in DOMAIN heap
    /\ heap' = [heap EXCEPT ![SerialObject].preset_name = label]
    /\ result' = [op |-> "set_preset_name"]
    /\ UNCHANGED <<chains, current, chain_ids, effectVars, storeVars, presetVars, concVars>>

\* effect.update_parameters(updates)
SerialUpdateParameters(updates) ==
    /\ SerialObject \in DOMAIN heap
    /\ \E r \in {update_parameters(heap[SerialObject].type,
                                   heap[SerialObject].parameters, updates)} :
        /\ heap' = [heap EXCEPT ![SerialObject].parameters = r.parameters]
        /\ result' = [op |-> "update_parameters", err |-> r.err]
    /\ UNCHANGED <<chains, current, chain_ids, effectVars, storeVars, presetVars, concVars>>

\* EffectsChain.from_dict(chain.to_dict())
ChainRoundtrip ==
    /\ result' = [op |-> "roundtrip",
                  out |-> EffectsChain_from_dict(EffectsChain_to_dict(TheChain, heap, 1))]
    /\ UNCHANGED <<chains, heap, current, chain_ids, effectVars, storeVars, presetVars,
                   concVars>>

\* an effect dict with the given id and position
EffectDict(id, position) ==
    [id |-> [str |-> id], type |-> "BOOST", parameters |-> DefaultParameters("BOOST"),
     bypassed |-> FALSE, position |-> position, preset_name |-> "None"]

\* longest list of effect dicts drawn freely for a chain descriptor
MaxDictLen == 3

\* chain descriptors read by from_dict: every list of at most MaxDictLen
\* effect dicts with ids 1..2 and positions 0..2, and the list of
\* MAX_EFFECTS + 1 dicts with ids and positions in order
ChainDicts ==
    {[id |-> [str |-> 1], name |-> "Lead", effects |-> l, active |-> FALSE] :
        l \in UNION {[1..n -> {EffectDict(i, p) : i \in 1..2, p \in 0..2}] :
                        n \in 0..MaxDictLen}
              \cup {[i \in 1..(MAX_EFFECTS + 1) |-> EffectDict(i, i - 1)]}}

\* EffectsChain.from_dict(d)
ChainFromDict(d) ==
    /\ result' = [op |-> "from_dict", out |-> EffectsChain_from_dict(d)]
    /\ UNCHANGED <<chains, heap, current, chain_ids, effectVars, storeVars, presetVars,
                   concVars>>

NextSerial ==
    \/ \E k \in EffectKinds : ChainAddNew(k)
    \/ \E i \in KnownIds : ChainRemove(i)
    \/ \E l \in OrderLists : ChainReorder(l)
    \/ \E b \in BOOLEAN : SetBypassed(b)
    \/ \E n \in {"None", "Lead"} : SetPresetName(n)
    \/ \E u \in SerialUpdates : SerialUpdateParameters(u)
    \/ ChainRoundtrip

SpecSerial == InitChain /\ [][NextSerial]_vars

NextDict == \E d \in ChainDicts : ChainFromDict(d)

SpecDict == InitChain /\ [][NextDict]_vars

\* C17: for every chain built through chain operations, the chain read back
\* from its own serialized form has the same ordered sequence of (kind,
\* parameters, bypassed) triples, and the same positions, ids and preset
\* labels.
C17_ChainRoundtrip ==
    result.op = "roundtrip"
    => /\ result.out.err = "OK"
       /\ Len(result.out.effects) = Len(TheChain.effects)
       /\ \A i \in 1..Len(TheChain.effects) :
            LET a == heap[TheChain.effects[i]]
                b == result.out.effects[i]
            IN /\ b.type = a.type /\ b.parameters = a.parameters
               /\ b.bypassed = a.bypassed /\ b.position = a.position
               /\ b.id = a.id /\ b.preset_name = a.preset_name

\* a round trip of a chain of two effects, the second at position 1, one of
\* them bypassed, labelled and with a parameter off its default
C17_Witness ==
    /\ result.op = "roundtrip"
    /\ Len(TheChain.effects) = 2
    /\ heap[TheChain.effects[2]].position = 1
    /\ \E i \in 1..2 :
        LET a == heap[TheChain.effects[i]]
        IN a.bypassed /\ a.preset_name = "Lead" /\ a.parameters # DefaultParameters(a.type)

\* C18: every chain read from a chain descriptor has at most 8 effects,
\* pairwise distinct effect ids and position equal to index for every
\* effect, whatever the descriptor carries; a descriptor that cannot give
\* such a chain is rejected.
C18_FromDictKeepsInvariant ==
    (result.op = "from_dict" /\ result.out.err = "OK")
    => /\ Len(result.out.effects) <= MAX_EFFECTS
       /\ \A i, j \in 1..Len(result.out.effects) :
            i # j => result.out.effects[i].id # result.out.effects[j].id
       /\ \A i \in 1..Len(result.out.effects) : result.out.effects[i].position = i - 1

----------------------------------------------------------------------------
(* Preset.copy and the objects a preset's effects_chain_config is made of  *)
(* src/src/models/preset.py                                                *)

\* The presets and the objects their configs reach: a preset holds the
\* reference of its effects_chain_config dict, the dict holds under
\* "effects" the reference of a list, the list holds the references of its
\* descriptor dicts.
PresetGraph(ps, dicts, lists, descs) ==
    [op |-> "graph", presets |-> ps, dicts |-> dicts, lists |-> lists, descs |-> descs]

\* the value of preset q's effects_chain_config, as far as it reaches
ConfigValue(g, q) ==
    LET l == g.lists[g.dicts[g.presets[q].effects_chain_config].effects]
    IN [effects |-> [i \in 1..Len(l) |-> g.descs[l[i]]]]

\* the reference the next object of a kind gets
NextObject(objs) == Cardinality(DOMAIN objs) + 1

\* the objects with a new one in them
WithObject(objs, v) == [o \in (DOMAIN objs) \cup {NextObject(objs)} |->
                           IF o = NextObject(objs) THEN v ELSE objs[o]]

\* most copies made of the preset
MaxCopies == 1

\* most list objects, and most descriptor objects
MaxCopyObjects == 3

\* Preset.copy() of the first preset: the name gets " (Copy)", the
\* constructor gives a new id, and effects_chain_config.copy() is a new dict
\* holding the references the original dict holds
PresetCopy ==
    /\ pin.op = "graph"
    /\ Len(pin.presets) <= MaxCopies
    /\ \E src \in {pin.presets[1]} :
       \E r \in {Preset_init(Len(pin.presets) + 1, "A (Copy)", NextObject(pin.dicts),
                             src.description, src.tags)} :
        /\ r.err = "OK"
        /\ pin' = PresetGraph(Append(pin.presets, r.preset),
                              WithObject(pin.dicts, pin.dicts[src.effects_chain_config]),
                              pin.lists, pin.descs)
        /\ pout' = [op |-> "copy", target |-> Len(pin.presets) + 1,
                    before |-> [q \in 1..Len(pin.presets) |-> ConfigValue(pin, q)]]
    /\ UNCHANGED <<effectVars, managerVars, storeVars, concVars>>

\* what a change of preset p's config records: the configs before it
Changed(op, p) ==
    [op |-> op, target |-> p,
     before |-> [q \in 1..Len(pin.presets) |-> ConfigValue(pin, q)]]

\* p.effects_chain_config["effects"] = []
SetEffectsKey(p) ==
    /\ pin.op = "graph" /\ p \in 1..Len(pin.presets)
    /\ Cardinality(DOMAIN pin.lists) < MaxCopyObjects
    /\ pin' = [pin EXCEPT !.lists = WithObject(@, << >>),
                          !.dicts[pin.presets[p].effects_chain_config].effects =
                              NextObject(pin.lists)]
    /\ pout' = Changed("set_key", p)
    /\ UNCHANGED <<effectVars, managerVars, storeVars, concVars>>

\* p.effects_chain_config["effects"].append({"type": "BOOST", ...})
AppendDescriptor(p) ==
    /\ pin.op = "graph" /\ p \in 1..Len(pin.presets)
    /\ Cardinality(DOMAIN pin.descs) < MaxCopyObjects
    /\ pin' = [pin EXCEPT !.descs = WithObject(@, [type |-> "BOOST", bypassed |-> FALSE]),
                          !.lists[pin.dicts[pin.presets[p].effects_chain_config].effects] =
                              Append(@, NextObject(pin.descs))]
    /\ pout' = Changed("append", p)
    /\ UNCHANGED <<effectVars, managerVars, storeVars, concVars>>

\* p.effects_chain_config["effects"][i]["bypassed"] = b
SetDescriptorBypassed(p, i, b) ==
    /\ pin.op = "graph" /\ p \in 1..Len(pin.presets)
    /\ \E l \in {pin.lists[pin.dicts[pin.presets[p].effects_chain_config].effects]} :
        /\ i \in 1..Len(l)
        /\ pin' = [pin EXCEPT !.descs[l[i]].bypassed = b]
    /\ pout' = Changed("set_bypassed", p)
    /\ UNCHANGED <<effectVars, managerVars, storeVars, concVars>>

\* a preset named A whose config has one descriptor
InitCopy ==
    /\ pin = PresetGraph(<<Preset_init(1, "A", 1, "None", << >>).preset>>,
                         <<[effects |-> 1]>>, <<<<1>>>>,
                         <<[type |-> "BOOST", bypassed |-> FALSE]>>)
    /\ pout = NoCall
    /\ EffectIdle /\ ManagerIdle /\ StoreIdle /\ ConcIdle

NextCopy ==
    \/ PresetCopy
    \/ \E p \in 1..(MaxCopies + 1) : SetEffectsKey(p)
    \/ \E p \in 1..(MaxCopies + 1) : AppendDescriptor(p)
    \/ \E p \in 1..(MaxCopies + 1), i \in 1..MaxCopyObjects, b \in BOOLEAN :
          SetDescriptorBypassed(p, i, b)

SpecCopy == InitCopy /\ [][NextCopy]_vars

\* C19: Preset.copy returns a preset with a new identity whose chain config
\* is a deep copy: a later change to the copy's config, to its effects list
\* or to one of its effect descriptors leaves the original preset's config
\* unchanged, and a change to the original's leaves the copy's unchanged.
C19_CopyIsDeep ==
    /\ pout.op = "copy" => pin.presets[pout.target].id # pin.presets[1].id
    /\ pout.op \in {"set_key", "append", "set_bypassed"}
       => \A q \in 1..Len(pout.before) :
            (q # pout.target /\ (q = 1 \/ pout.target = 1))
            => ConfigValue(pin, q) = pout.before[q]

----------------------------------------------------------------------------
(* create_chain on configurations of several effects                        *)
(* src/src/services/effects_manager.py                                      *)

\* most chain ids handed out in a run of create_chain calls
MaxCreatedChains == 2

\* longest effect list drawn freely for a chain configuration
MaxCreateEffects == 2

\* effect configurations: a Boost, a bypassed Delay with tempo_sync 1 and
\* "position": 5, a Boost with gain_db 31.0, and a kind that does not exist
CreateEffectConfigs ==
    {EffectConfig("BOOST", << >>, FALSE, FALSE),
     [EffectConfig("DELAY", << <<"tempo_sync", IntV(1)>> >>, TRUE, TRUE)
         EXCEPT !.has_position = TRUE, !.position = 5],
     EffectConfig("BOOST", << <<"gain_db", Float(3100)>> >>, FALSE, FALSE),
     EffectConfig("FUZZ", << >>, FALSE, FALSE)}

\* a list of n Boost configurations
Boosts(n) == [i \in 1..n |-> EffectConfig("BOOST", << >>, FALSE, FALSE)]

\* chain configurations: named A with every list of at most MaxCreateEffects
\* effect configurations, with MAX_EFFECTS and with MAX_EFFECTS + 1 Boosts,
\* and with a Boost at "position": -1; an empty name, a name of 51
\* characters and no "name" key, each with one Boost
CreateConfigs ==
    {[has_name |-> TRUE, name |-> "A", effects |-> l] :
        l \in UNION {[1..n -> CreateEffectConfigs] : n \in 0..MaxCreateEffects}
              \cup {Boosts(MAX_EFFECTS), Boosts(MAX_EFFECTS + 1),
                    <<[EffectConfig("BOOST", << >>, FALSE, FALSE)
                          EXCEPT !.has_position = TRUE, !.position = -1]>>}}
    \cup {[has_name |-> TRUE, name |-> n, effects |-> Boosts(1)] : n \in {"", "N51"}}
    \cup {[has_name |-> FALSE, name |-> "", effects |-> Boosts(1)]}

\* EffectsManager.create_chain(chain_config), with what the caller passed
\* and the manager's state before the call
CreateChainCall(cfg) ==
    /\ \E r \in {create_chain(chains, current, heap, chain_ids + 1, cfg)} :
          /\ r.err = "OK" => chain_ids < MaxCreatedChains
          /\ chains' = r.chains
          /\ heap' = r.heap
          /\ current' = r.current
          /\ chain_ids' = IF r.err = "OK" THEN chain_ids + 1 ELSE chain_ids
          /\ result' = [op |-> "create_chain", err |-> r.err, cfg |-> cfg,
                        chains_before |-> chains, current_before |-> current,
                        heap_before |-> heap]
    /\ UNCHANGED <<effectVars, storeVars, presetVars, concVars>>

NextCreate ==
    \/ \E cfg \in CreateConfigs : CreateChainCall(cfg)
    \/ \E c \in 1..MaxCreatedChains : SetCurrentChain(c)

SpecCreate == Init /\ [][NextCreate]_vars

\* an effect descriptor the creation path accepts
EffectConfigValid(d) ==
    /\ d.type \in EffectType
    /\ \A j \in 1..Len(d.parameters) :
          ValidateEntry(d.type, d.parameters[j][1], d.parameters[j][2]) = "OK"
    /\ d.has_position => d.position >= 0

\* a chain configuration create_chain is to accept
ChainConfigValid(cfg) ==
    /\ cfg.has_name /\ StrLen(cfg.name) \in 1..50
    /\ Len(cfg.effects) <= MAX_EFFECTS
    /\ \A i \in 1..Len(cfg.effects) : EffectConfigValid(cfg.effects[i])

\* the chain is the one the configuration describes: its effects in
\* descriptor order, at positions 0..n-1, each with its descriptor's kind,
\* bypass flag and parameter overrides
BuiltFrom(chain, h, cfg) ==
    /\ chain.name = cfg.name
    /\ Len(chain.effects) = Len(cfg.effects)
    /\ \A i \in 1..Len(cfg.effects) :
          LET o == h[chain.effects[i]]
              d == cfg.effects[i]
          IN /\ o.type = d.type
             /\ o.position = i - 1
             /\ o.bypassed = (d.has_bypassed /\ d.bypassed)
             /\ \A j \in 1..Len(d.parameters) :
                   o.parameters[d.parameters[j][1]]
                       = StoredValue(d.type, d.parameters[j][1], d.parameters[j][2])

\* C20: createChain is all-or-nothing: it either registers a fully built
\* chain (every effect descriptor validated, effects in descriptor order
\* with positions 0..n-1) and makes it current, or fails with
\* InvalidChainConfig (missing name, bad kind, bad parameter, more than 8
\* effects) and leaves the chain mapping and the current pointer exactly as
\* before.
C20_CreateChainAllOrNothing ==
    result.op = "create_chain"
    => IF ChainConfigValid(result.cfg)
       THEN /\ result.err = "OK"
            /\ current \notin DOMAIN result.chains_before
            /\ DOMAIN chains = (DOMAIN result.chains_before) \cup {current}
            /\ \A c \in DOMAIN result.chains_before : chains[c] = result.chains_before[c]
            /\ \A o \in DOMAIN result.heap_before : heap[o] = result.heap_before[o]
            /\ BuiltFrom(chains[current], heap, result.cfg)
       ELSE /\ result.err = "InvalidChainConfig"
            /\ chains = result.chains_before
            /\ current = result.current_before
            /\ heap = result.heap_before

\* a configuration of nine effects is refused after a chain of two effects,
\* the second configured with "position": 5, was created and the default
\* chain was made current again
C20_Witness ==
    /\ result.op = "create_chain" /\ result.err = "InvalidChainConfig"
    /\ Len(result.cfg.effects) > MAX_EFFECTS
    /\ current = 1
    /\ \E c \in DOMAIN chains :
          /\ Len(chains[c].effects) = 2
          /\ heap[chains[c].effects[2]].type = "DELAY"
          /\ heap[chains[c].effects[2]].position = 1

----------------------------------------------------------------------------
(* Claims on the manager's chain mapping and current chain                 *)

\* an empty chain as EffectsChain("Default Chain") makes it
IsFreshDefault(c) == c.name = "Default Chain" /\ c.effects = << >> /\ ~c.active

\* the chains other than d are the same chains after the step
OthersKept(d) ==
    /\ DOMAIN chains' = (DOMAIN chains) \ {d}
    /\ \A c \in DOMAIN chains' : chains'[c] = chains[c]

\* C21: deleteChain(id) of the current chain makes one of the other
\* registered chains current when any exists (creating no chain), and
\* otherwise leaves exactly one chain, a freshly created default chain with
\* an id different from the deleted one, as current; deleteChain of a
\* non-current chain leaves the current pointer unchanged; the deleted id is
\* no longer in the mapping.
C21_DeleteChainReplacesCurrent ==
    [][(result'.op = "delete_chain" /\ result'.id \in DOMAIN chains)
       => /\ result'.err = "OK"
          /\ result'.id \notin DOMAIN chains'
          /\ IF current = result'.id
             THEN IF DOMAIN chains # {result'.id}
                  THEN /\ current' \in (DOMAIN chains) \ {result'.id}
                       /\ OthersKept(result'.id)
                  ELSE /\ DOMAIN chains' = {current'}
                       /\ current' # result'.id
                       /\ IsFreshDefault(chains'[current'])
             ELSE /\ current' = current
                  /\ OthersKept(result'.id)]_vars

\* C22: setCurrentChain with an id that is not in the mapping returns false
\* without raising and leaves the current pointer and the mapping unchanged;
\* with a registered id it returns true and that chain becomes current.
C22_SetCurrentChain ==
    [][result'.op = "set_current_chain"
       => /\ chains' = chains
          /\ IF result'.id \in DOMAIN chains
             THEN result'.err = "OK" /\ current' = result'.id
             ELSE result'.err = "False" /\ current' = current]_vars

\* an unknown id was refused while a chain other than the first is current
C22_Witness ==
    /\ result.op = "set_current_chain" /\ result.err = "False"
    /\ result.id \notin DOMAIN chains
    /\ current \in DOMAIN chains /\ current # 1

\* C23: every chain registered in the manager has a name of 1 to 50
\* characters in every reachable state: updateChain re-validates a supplied
\* name and rejects an empty or over-50-character name, leaving the chain
\* unchanged.
C23_RegisteredNamesValid ==
    \A c \in DOMAIN chains : StrLen(chains[c].name) \in 1..50

----------------------------------------------------------------------------
(* SpecLoad: a preset store and an effects manager side by side. Presets   *)
(* are saved and loaded; the chain load_preset returns is in pout, its     *)
(* effect objects are in the heap, and the manager is then called with the *)
(* loaded chain's ids.                                                     *)
(* src/src/services/preset_manager.py, src/src/services/effects_manager.py *)

\* effect lists of the saved configurations: none, a Boost, a Boost and a
\* bypassed Delay, a kind that does not exist, a name Boost does not have,
\* gain_db 31.0, gain_db nan, and one effect more than a chain holds
LoadEffectLists ==
    {<< >>,
     <<EffectConfig("BOOST", << >>, FALSE, FALSE)>>,
     <<EffectConfig("BOOST", << >>, FALSE, FALSE),
       EffectConfig("DELAY", << <<"tempo_sync", IntV(1)>> >>, TRUE, TRUE)>>,
     <<EffectConfig("FUZZ", << >>, FALSE, FALSE)>>,
     <<EffectConfig("BOOST", << <<"tempo_sync", IntV(1)>> >>, FALSE, FALSE)>>,
     <<EffectConfig("BOOST", << <<"gain_db", Float(3100)>> >>, FALSE, FALSE)>>,
     <<EffectConfig("BOOST", << <<"gain_db", NaN>> >>, FALSE, FALSE)>>,
     OverfullEffects}

\* configurations passed to save_preset
LoadSaveConfigs ==
    [has_name : {TRUE}, name : {"A", "B"}, has_config : {TRUE},
     effects_chain_config : [name : {"Lead"}, effects : LoadEffectLists],
     description : {"None"}, tags : {<< >>}]

\* most chain ids handed out: the manager's default chain and the loaded ones
MaxLoadedChains == 3

\* PresetManager.load_preset(preset_id): get_preset, then to_effects_chain
\* with any exception raised again as RuntimeError. The chain gets a new id
\* and its effects are new objects; neither the store nor the call holds a
\* reference to an effects manager.
LoadPreset(preset_id) ==
    /\ chain_ids < MaxLoadedChains
    /\ \E g \in {IF preset_id \in DOMAIN presets
                 THEN [found |-> TRUE, preset |-> presets[preset_id]]
                 ELSE load_from_file(preset_id)} :
       IF ~g.found
       THEN /\ pout' = [op |-> "load_preset", err |-> "PresetNotFound"]
            /\ UNCHANGED <<heap, chain_ids>>
       ELSE \E r \in {to_effects_chain_in(g.preset, heap)} :
            IF r.err # "OK"
            THEN /\ pout' = [op |-> "load_preset", err |-> "PresetLoadError",
                             config |-> g.preset.effects_chain_config]
                 /\ UNCHANGED <<heap, chain_ids>>
            ELSE /\ pout' = [op |-> "load_preset", err |-> "OK",
                             config |-> g.preset.effects_chain_config,
                             chain_id |-> chain_ids + 1, chain |-> r.chain]
                 /\ heap' = r.heap
                 /\ chain_ids' = chain_ids + 1
    /\ result' = NoCall
    /\ UNCHANGED <<chains, current, pin, effectVars, storeVars, concVars>>

\* _find_effect_by_id that looks in the first registered chain only
find_effect_by_id_FirstChain(chs, h, effect_id) ==
    IF DOMAIN chs = {} THEN 0
    ELSE LET i == IndexOfId(chs[MinId(DOMAIN chs)].effects, h, effect_id)
         IN IF i = 0 THEN 0 ELSE chs[MinId(DOMAIN chs)].effects[i]

\* EffectsManager._find_effect_by_id: the object of the first effect with
\* the id in the registered chains, 0 when there is none
find_effect_by_id(chs, h, effect_id) ==
    LET hits == {c \in DOMAIN chs : IndexOfId(chs[c].effects, h, effect_id) # 0}
    IN IF hits = {} THEN 0
       ELSE chs[MinId(hits)].effects[IndexOfId(chs[MinId(hits)].effects, h, effect_id)]

\* EffectsManager.update_effect_parameters(effect_id, parameter_updates)
UpdateEffectParameters(effect_id, updates) ==
    /\ \E o \in {find_effect_by_id(chains, heap, effect_id)} :
       IF o = 0
       THEN /\ result' = [op |-> "update_effect_parameters", err |-> "EffectNotFound",
                          id |-> effect_id]
            /\ UNCHANGED heap
       ELSE \E r \in {update_parameters(heap[o].type, heap[o].parameters, updates)} :
            /\ heap' = [heap EXCEPT ![o].parameters = r.parameters]
            /\ result' = [op |-> "update_effect_parameters",
                          err |-> IF r.err = "OK" THEN "OK" ELSE "InvalidParameters",
                          id |-> effect_id]
    /\ UNCHANGED <<chains, current, chain_ids, effectVars, storeVars, presetVars, concVars>>

\* the manager with its default chain, an empty store, nothing loaded
InitLoad ==
    /\ chains = [i \in {1} |-> EffectsChain_init("Default Chain").chain]
    /\ current = 1
    /\ heap = << >>
    /\ chain_ids = 1
    /\ result = NoCall
    /\ presets = << >> /\ preset_names = << >> /\ files = << >> /\ preset_ids = 0
    /\ sres = NoCall
    /\ EffectIdle /\ PresetIdle /\ ConcIdle

\* a chain load_preset returned is in hand
Loaded == pout.op = "load_preset" /\ pout.err = "OK"

NextLoad ==
    \/ \E c \in LoadSaveConfigs : SavePreset(c, TRUE)
    \/ \E id \in PresetIdArgs : LoadPreset(id)
    \/ \E c \in {1} \cup (IF Loaded THEN {pout.chain_id} ELSE {}) :
          AddEffectToChain(c, EffectConfig("BOOST", << >>, FALSE, FALSE))
    \/ \E i \in 1..2 :
          /\ Loaded /\ i <= Len(pout.chain.effects)
          /\ UpdateEffectParameters(heap[pout.chain.effects[i]].id,
                                    << <<"tone", Float(60)>> >>)
    \/ UpdateEffectParameters(1, << <<"tone", Float(60)>> >>)

SpecLoad == InitLoad /\ [][NextLoad]_vars

\* C24: a chain returned by loading a preset from the preset store is known
\* to the effects manager: updateEffectParameters on one of its effect ids
\* and addEffectToChain on its chain id succeed, and the loaded chain is the
\* manager's current chain.
C24_LoadedChainKnownToManager ==
    Loaded
    => /\ current = pout.chain_id
       /\ pout.chain_id \in DOMAIN chains
       /\ \A i \in 1..Len(pout.chain.effects) :
             find_effect_by_id(chains, heap, heap[pout.chain.effects[i]].id) # 0
       /\ result.op = "update_effect_parameters" => result.err # "EffectNotFound"

\* a descriptor with an unknown kind, an unknown parameter name or a value
\* outside the parameter's range
DescriptorBad(d) ==
    \/ d.type \notin EffectType
    \/ \E j \in 1..Len(d.parameters) :
          \/ d.parameters[j][1] \notin DOMAIN PARAMETER_DEFINITIONS[d.type]
          \/ ~WithinRange(d.parameters[j][2],
                          PARAMETER_DEFINITIONS[d.type][d.parameters[j][1]].min,
                          PARAMETER_DEFINITIONS[d.type][d.parameters[j][1]].max)

\* C26: toChain on a preset whose stored config contains an unknown kind, an
\* unknown parameter name, an out-of-range value or more than 8 effects
\* fails and never returns a chain holding a clamped or defaulted value in
\* place of the stored one; the store's load surfaces that failure as
\* PresetLoadError.
C26_BadConfigFailsToLoad ==
    (pout.op = "load_preset" /\ pout.err # "PresetNotFound")
    => IF \/ Len(pout.config.effects) > MAX_EFFECTS
          \/ \E i \in 1..Len(pout.config.effects) : DescriptorBad(pout.config.effects[i])
       THEN pout.err = "PresetLoadError"
       ELSE pout.err = "OK"
            => \A i \in 1..Len(pout.config.effects) :
                  MatchesDescriptor(heap[pout.chain.effects[i]], pout.config.effects[i])

\* C25: reorderEffects with any permutation of the chain's current ids
\* succeeds, keeps the number of effects and the set of effect identities
\* unchanged, and yields exactly the supplied order with positions
\* renumbered 0..n-1; parameters and bypass flags of every effect are
\* unchanged.
C25_PermutationReorders ==
    [][(/\ result'.op = "reorder"
        /\ IsPermutation(result'.arg, IdsOf(TheChain.effects, heap)))
       => /\ result'.err = "OK"
          /\ Len(chains'[1].effects) = Len(TheChain.effects)
          /\ {chains'[1].effects[i] : i \in 1..Len(chains'[1].effects)}
                = {TheChain.effects[i] : i \in 1..Len(TheChain.effects)}
          /\ IdsOf(chains'[1].effects, heap') = result'.arg
          /\ PositionsMatch(chains'[1], heap')
          /\ \A o \in DOMAIN heap :
                /\ heap'[o].parameters = heap[o].parameters
                /\ heap'[o].bypassed = heap[o].bypassed]_vars

\* an override set that respects the schema of the kind: every name is a
\* parameter of the kind and every value lies in the parameter's range (a
\* bool parameter takes 0, 1, False or True)
RespectsSchema(kind, overrides) ==
    \A j \in 1..Len(overrides) :
       /\ overrides[j][1] \in DOMAIN PARAMETER_DEFINITIONS[kind]
       /\ IF PARAMETER_DEFINITIONS[kind][overrides[j][1]].units = "bool"
          THEN InBoolList(overrides[j][2])
          ELSE WithinRange(overrides[j][2],
                           PARAMETER_DEFINITIONS[kind][overrides[j][1]].min,
                           PARAMETER_DEFINITIONS[kind][overrides[j][1]].max)

\* C27: for every kind K and every override set O that respects K's schema,
\* create(K, O) succeeds and its parameters equal K's defaults with exactly
\* the keys of O replaced by O's values; with no overrides the parameters
\* equal the schema defaults, bypassed is false and position is 0.
C27_CreateAppliesOverrides ==
    (call.op = "create" /\ RespectsSchema(call.kind, call.updates))
    => /\ call.err = "OK"
       /\ effect.type = call.kind
       /\ DOMAIN effect.parameters = DOMAIN PARAMETER_DEFINITIONS[call.kind]
       /\ \A k \in DOMAIN effect.parameters :
             IF \E j \in 1..Len(call.updates) : call.updates[j][1] = k
             THEN \A j \in 1..Len(call.updates) :
                     call.updates[j][1] = k => PyEq(effect.parameters[k], call.updates[j][2])
             ELSE effect.parameters[k] = PARAMETER_DEFINITIONS[call.kind][k].default
       /\ ~effect.bypassed /\ effect.position = 0

\* a Boost was created with two overrides, both stored
C27_Witness ==
    /\ call.op = "create" /\ call.err = "OK" /\ call.kind = "BOOST"
    /\ Len(call.updates) = 2
    /\ RespectsSchema(call.kind, call.updates)
    /\ effect.parameters["gain_db"] = IntV(1) /\ effect.parameters["tone"] = IntV(1)

----------------------------------------------------------------------------
(* SpecEngine: starting and stopping audio processing                      *)
(* src/src/services/audio_engine.py. engine holds _processing_active,      *)
(* _audio_interface, _audio_stream and the streams that run; ctl holds the *)
(* last call and how it ended. A stream runs from the return of its        *)
(* start() until the engine stops and drops it.                            *)

\* an audio configuration dict: a key that is absent has its has_ field FALSE
AudioConfig(input_device, has_rate, sample_rate, buffer_size, has_in, input_channels) ==
    [input_device |-> input_device, output_device |-> "BlackHole 2ch",
     has_sample_rate |-> has_rate, sample_rate |-> sample_rate,
     buffer_size |-> buffer_size,
     has_input_channels |-> has_in, input_channels |-> input_channels]

\* configurations passed to start_processing: two that are valid, one
\* without "sample_rate", a sample rate and a buffer size that are not
\* supported, an empty "input_channels" list and a device that does not exist
AudioConfigs ==
    {AudioConfig("Scarlett 2i2 USB", TRUE, 48000, 256, FALSE, << >>),
     AudioConfig("Scarlett 2i2 USB", TRUE, 44100, 512, TRUE, <<0>>),
     AudioConfig("Scarlett 2i2 USB", FALSE, 0, 256, FALSE, << >>),
     AudioConfig("Scarlett 2i2 USB", TRUE, 22050, 256, FALSE, << >>),
     AudioConfig("Scarlett 2i2 USB", TRUE, 48000, 100, FALSE, << >>),
     AudioConfig("Scarlett 2i2 USB", TRUE, 48000, 256, TRUE, << >>),
     AudioConfig("Non-existent Device", TRUE, 48000, 256, FALSE, << >>)}

\* AudioEngine._validate_audio_config
validate_audio_config(cfg) ==
    /\ cfg.has_sample_rate
    /\ cfg.sample_rate \in {44100, 48000, 96000}
    /\ cfg.buffer_size \in {32, 64, 128, 256, 512, 1024, 2048}

\* the AudioInterface start_processing builds from a configuration
AudioInterface_init(cfg) ==
    [input_device_name |-> cfg.input_device, output_device_name |-> cfg.output_device,
     sample_rate |-> cfg.sample_rate, buffer_size |-> cfg.buffer_size,
     input_channels |-> IF cfg.has_input_channels /\ cfg.input_channels # << >>
                        THEN cfg.input_channels ELSE <<0>>]

\* how _initialize_audio_stream can end when sounddevice is there: the
\* stream is created and started, its constructor raises, or its start() raises
StreamOutcomes == {"started", "create_fails", "start_fails"}

\* the engine of AudioEngine.__init__; sounddevice says whether the
\* sounddevice module could be imported
EngineInit(sounddevice) ==
    [processing_active |-> FALSE, audio_interface |-> [input_device_name |-> "None"],
     audio_stream |-> 0, running |-> {}, streams |-> 0, sounddevice |-> sounddevice]

\* start_processing without the test of _processing_active
start_processing_NoGuard(e, cfg, io) ==
    IF ~validate_audio_config(cfg) THEN [err |-> "InvalidAudioConfig", engine |-> e]
    ELSE The({
      IF cfg.has_input_channels /\ cfg.input_channels = << >>
      THEN [err |-> "ValueError", engine |-> e1]
      ELSE IF cfg.input_device = "Non-existent Device"
      THEN [err |-> "AudioHardwareError", engine |-> e1]
      ELSE IF ~e.sounddevice
      THEN [err |-> "OK", engine |-> [e1 EXCEPT !.processing_active = TRUE]]
      ELSE IF io = "create_fails"
      THEN [err |-> "AudioHardwareError", engine |-> e1]
      ELSE IF io = "start_fails"
      THEN [err |-> "AudioHardwareError",
            engine |-> [e1 EXCEPT !.audio_stream = e.streams + 1, !.streams = @ + 1]]
      ELSE [err |-> "OK",
            engine |-> [e1 EXCEPT !.audio_stream = e.streams + 1, !.streams = @ + 1,
                                  !.running = @ \cup {e.streams + 1},
                                  !.processing_active = TRUE]]
      : e1 \in {[e EXCEPT !.audio_interface = AudioInterface_init(cfg)]}})

\* AudioEngine.start_processing(audio_config); io is how the stream's
\* creation ends. A call on an active engine raises at once; the
\* configuration is validated; the interface is assigned; the channel
\* setters and the device test can raise; then the stream is initialized
\* and the engine becomes active.
start_processing(e, cfg, io) ==
    IF e.processing_active THEN [err |-> "AlreadyActive", engine |-> e]
    ELSE IF ~validate_audio_config(cfg) THEN [err |-> "InvalidAudioConfig", engine |-> e]
    ELSE The({
      IF cfg.has_input_channels /\ cfg.input_channels = << >>
      THEN [err |-> "ValueError", engine |-> e1]
      ELSE IF cfg.input_device = "Non-existent Device"
      THEN [err |-> "AudioHardwareError", engine |-> e1]
      ELSE IF ~e.sounddevice
      THEN [err |-> "OK", engine |-> [e1 EXCEPT !.processing_active = TRUE]]
      ELSE IF io = "create_fails"
      THEN [err |-> "AudioHardwareError", engine |-> e1]
      ELSE IF io = "start_fails"
      THEN [err |-> "AudioHardwareError",
            engine |-> [e1 EXCEPT !.audio_stream = e.streams + 1, !.streams = @ + 1]]
      ELSE [err |-> "OK",
            engine |-> [e1 EXCEPT !.audio_stream = e.streams + 1, !.streams = @ + 1,
                                  !.running = @ \cup {e.streams + 1},
                                  !.processing_active = TRUE]]
      : e1 \in {[e EXCEPT !.audio_interface = AudioInterface_init(cfg)]}})

\* AudioEngine.stop_processing(): True at once when not active; otherwise
\* _cleanup_audio_stream stops and closes the stream, swallowing its
\* exceptions, and drops it, and the engine becomes inactive
stop_processing(e) ==
    IF ~e.processing_active THEN [ret |-> TRUE, engine |-> e]
    ELSE [ret |-> TRUE,
          engine |-> [e EXCEPT !.running = @ \ {e.audio_stream}, !.audio_stream = 0,
                               !.processing_active = FALSE]]

\* most streams created in a run
MaxStreams == 2

\* engine.start_processing(cfg)
StartProcessing(cfg, io) ==
    /\ \E r \in {start_processing(engine, cfg, io)} :
          /\ r.engine.streams <= MaxStreams
          /\ engine' = r.engine
          /\ ctl' = [op |-> "start_processing", err |-> r.err, cfg |-> cfg]
    /\ UNCHANGED <<effectVars, managerVars, storeVars, presetVars>>

\* engine.stop_processing()
StopProcessing ==
    /\ \E r \in {stop_processing(engine)} :
          /\ engine' = r.engine
          /\ ctl' = [op |-> "stop_processing", err |-> IF r.ret THEN "True" ELSE "False"]
    /\ UNCHANGED <<effectVars, managerVars, storeVars, presetVars>>

InitEngine ==
    /\ \E sd \in BOOLEAN : engine = EngineInit(sd)
    /\ ctl = NoCall
    /\ EffectIdle /\ ManagerIdle /\ StoreIdle /\ PresetIdle

NextEngine ==
    \/ \E cfg \in AudioConfigs, io \in StreamOutcomes : StartProcessing(cfg, io)
    \/ StopProcessing

SpecEngine == InitEngine /\ [][NextEngine]_vars

\* C28: at most one audio processing session is active at a time:
\* start_processing while processing is active always fails with 'Audio
\* processing already active' and leaves the engine active with its
\* configuration unchanged; stop_processing when not active returns true and
\* leaves the engine inactive.
C28_OneSessionAtATime ==
    [][/\ Cardinality(engine'.running) <= 1
       /\ (ctl'.op = "start_processing" /\ engine.processing_active)
          => (ctl'.err = "AlreadyActive" /\ engine' = engine)
       /\ (ctl'.op = "stop_processing" /\ ~engine.processing_active)
          => (ctl'.err = "True" /\ engine' = engine /\ ~engine'.processing_active)]_vars

\* a start was refused on an engine whose second stream is running
C28_Witness ==
    /\ ctl.op = "start_processing" /\ ctl.err = "AlreadyActive"
    /\ engine.processing_active
    /\ engine.running = {2}
    /\ engine.audio_interface.sample_rate = 44100

----------------------------------------------------------------------------
(* SpecInstall: the control thread installs one chain after another in the *)
(* engine while process_frame and the stream's audio_callback render.      *)
(* set_effects_chain holds _audio_lock over its two statements; the        *)
(* readers take no lock, read self._effects_chain and then, when the chain *)
(* has effects, self._pedalboard.                                          *)

\* chains the control thread installs: chain 1 with one effect, chain 2 with
\* two, chain 3 with none
InstallChains == {1, 2, 3}

\* the render paths
Readers == {"process_frame", "audio_callback"}

\* self._pedalboard = None
NoPedalboard == [built_from |-> 0, effects |-> << >>]

\* a reader between two frames
ReaderIdle == [pc |-> "idle", chain |-> 0, previous |-> 0]

\* the control thread between two calls of set_effects_chain
InstallIdle == [pc |-> "idle", chain |-> 0]

\* set_effects_chain(chain): the lock is taken and self._effects_chain is
\* assigned. previous remembers the chain installed before.
InstallChainBegin(c) ==
    /\ ctl.pc = "idle" /\ ~engine.audio_lock
    /\ engine' = [engine EXCEPT !.audio_lock = TRUE, !.effects_chain = c,
                                !.previous = engine.effects_chain]
    /\ ctl' = [pc |-> "install", chain |-> c]
    /\ UNCHANGED <<effectVars, managerVars, storeVars, presetVars>>

\* set_effects_chain(chain): _setup_effects_chain builds the pedalboard of
\* self._effects_chain, or sets None when pedalboard is not there or the
\* chain is falsy (a chain without effects is), and the lock is released
InstallChainEnd ==
    /\ ctl.pc = "install"
    /\ engine' = [engine EXCEPT
          !.audio_lock = FALSE,
          !.pedalboard =
              IF ~engine.pedalboard_available \/ Len(chains[engine.effects_chain].effects) = 0
              THEN NoPedalboard
              ELSE [built_from |-> engine.effects_chain,
                    effects |-> setup_effects_chain(chains[engine.effects_chain].effects, heap)]]
    /\ ctl' = InstallIdle
    /\ UNCHANGED <<effectVars, managerVars, storeVars, presetVars>>

\* a render path tests self._effects_chain and its effects: without a chain
\* or without effects the frame is passed through, otherwise the pedalboard
\* is read next
ReadChain(r) ==
    /\ engine.readers[r].pc = "idle"
    /\ IF engine.effects_chain = 0 \/ Len(chains[engine.effects_chain].effects) = 0
       THEN engine' = [engine EXCEPT !.seen = [reader |-> r, chain |-> engine.effects_chain,
                                               previous |-> engine.previous,
                                               pedalboard |-> NoPedalboard]]
       ELSE engine' = [engine EXCEPT !.readers[r] = [pc |-> "chain_read",
                                                     chain |-> engine.effects_chain,
                                                     previous |-> engine.previous]]
    /\ UNCHANGED <<ctl, effectVars, managerVars, storeVars, presetVars>>

\* the render path reads self._pedalboard and runs the frame through it
ReadPedalboard(r) ==
    /\ engine.readers[r].pc = "chain_read"
    /\ engine' = [engine EXCEPT !.seen = [reader |-> r, chain |-> engine.readers[r].chain,
                                          previous |-> engine.readers[r].previous,
                                          pedalboard |-> engine.pedalboard],
                                !.readers[r] = ReaderIdle]
    /\ UNCHANGED <<ctl, effectVars, managerVars, storeVars, presetVars>>

InitInstall ==
    /\ \E a \in {ChainOf(1, [chain |-> EffectsChain_init("A").chain, heap |-> << >>])} :
       \E b \in {ChainOf(2, [chain |-> EffectsChain_init("B").chain, heap |-> a.heap])} :
          /\ chains = (1 :> a.chain) @@ (2 :> b.chain) @@ (3 :> EffectsChain_init("Lead").chain)
          /\ heap = b.heap
    /\ current = 0
    /\ chain_ids = 3
    /\ result = NoCall
    /\ \E available \in BOOLEAN :
          engine = [effects_chain |-> 0, previous |-> 0, pedalboard |-> NoPedalboard,
                    pedalboard_available |-> available, audio_lock |-> FALSE,
                    readers |-> [r \in Readers |-> ReaderIdle],
                    seen |-> [reader |-> "none"]]
    /\ ctl = InstallIdle
    /\ EffectIdle /\ StoreIdle /\ PresetIdle

NextInstall ==
    \/ \E c \in InstallChains : InstallChainBegin(c)
    \/ InstallChainEnd
    \/ \E r \in Readers : ReadChain(r)
    \/ \E r \in Readers : ReadPedalboard(r)

SpecInstall == InitInstall /\ [][NextInstall]_vars

\* C29: installing a chain in the engine and reading it for rendering are
\* mutually atomic: a render read (process_frame or the audio callback)
\* interleaved with set_effects_chain never pairs the newly installed chain
\* with the processing pipeline built from the previously installed chain.
C29_InstallAndReadAtomic ==
    (engine.seen.reader # "none" /\ engine.seen.pedalboard # NoPedalboard)
    => ~(/\ engine.seen.pedalboard.built_from = engine.seen.previous
         /\ engine.seen.pedalboard.built_from # engine.seen.chain)

----------------------------------------------------------------------------
(* SpecApp: the manager, the preset store and the engine as the main       *)
(* window wires them (src/src/ui). The handlers run on the UI thread, one  *)
(* at a time. engine holds _processing_active, _effects_chain (the id of   *)
(* the chain object) and _pedalboard.                                      *)

\* most chain ids handed out: the default chain, created and loaded ones
MaxAppChains == 3

\* most AudioEffect objects alive
MaxAppEffects == 2

\* presets the browser saves: an empty chain, a chain of one effect and one
\* whose effect has an unknown type
AppSaveConfigs ==
    {c \in LoadSaveConfigs :
        \/ c.name = "A" /\ c.effects_chain_config.effects = << >>
        \/ c.name = "B"
           /\ c.effects_chain_config.effects
                 \in {<<EffectConfig("BOOST", << >>, FALSE, FALSE)>>,
                      <<EffectConfig("FUZZ", << >>, FALSE, FALSE)>>}}

\* chain configurations passed to create_chain: a chain without effects, a
\* chain of one effect, and a name that is not valid
AppChainConfigs ==
    {c \in ChainConfigs :
        /\ c.has_name /\ c.name \in {"A", ""}
        /\ c.effects \in {<< >>, <<EffectConfig("BOOST", << >>, FALSE, FALSE)>>}}

\* AudioEngine.set_effects_chain(chain) run to its end: the chain is
\* assigned and _setup_effects_chain builds its pedalboard
set_effects_chain(e, c, chs, h) ==
    [e EXCEPT !.effects_chain = c,
              !.pedalboard = IF \/ ~e.pedalboard_available
                                \/ c \notin DOMAIN chs
                                \/ Len(chs[c].effects) = 0
                             THEN NoPedalboard
                             ELSE [built_from |-> c,
                                   effects |-> setup_effects_chain(chs[c].effects, h)]]

\* PresetBrowser.load_selected_preset: the chain load_preset returns is made
\* the manager's current chain and registered, and preset_loaded is emitted;
\* MainWindow.on_preset_loaded refreshes the panel and the status bar. An
\* exception is shown in a message box.
LoadSelectedPreset(preset_id) ==
    /\ chain_ids < MaxAppChains
    /\ \E g \in {IF preset_id \in DOMAIN presets
                 THEN [found |-> TRUE, preset |-> presets[preset_id]]
                 ELSE load_from_file(preset_id)} :
       IF ~g.found
       THEN /\ result' = [op |-> "load_selected_preset", err |-> "PresetNotFound"]
            /\ UNCHANGED <<chains, current, heap, chain_ids>>
       ELSE \E r \in {to_effects_chain_in(g.preset, heap)} :
            IF r.err # "OK"
            THEN /\ result' = [op |-> "load_selected_preset", err |-> "PresetLoadError"]
                 /\ UNCHANGED <<chains, current, heap, chain_ids>>
            ELSE /\ Cardinality(DOMAIN r.heap) <= MaxAppEffects
                 /\ result' = [op |-> "load_selected_preset", err |-> "OK"]
                 /\ chains' = DictPut(chains, chain_ids + 1, r.chain)
                 /\ current' = chain_ids + 1
                 /\ heap' = r.heap
                 /\ chain_ids' = chain_ids + 1
    /\ UNCHANGED <<effectVars, storeVars, presetVars, concVars>>

\* EffectsPanel.add_effect: add_effect_to_chain on the current chain, then
\* effects_changed is emitted and MainWindow.on_effects_changed installs the
\* current chain in the engine. An exception is shown in a message box and
\* nothing is emitted.
PanelAddEffect(cfg) ==
    /\ IF current \notin DOMAIN chains
       THEN /\ result' = [op |-> "add_effect", err |-> "ChainNotFound"]
            /\ UNCHANGED <<chains, heap, engine>>
       ELSE \E r \in {create_and_add_effect(chains[current], heap, cfg)} :
            IF r.err # "OK"
            THEN /\ result' = [op |-> "add_effect", err |-> "InvalidEffectConfig"]
                 /\ UNCHANGED <<chains, heap, engine>>
            ELSE /\ Cardinality(DOMAIN r.heap) <= MaxAppEffects
                 /\ chains' = [chains EXCEPT ![current] = r.chain]
                 /\ heap' = r.heap
                 /\ engine' = set_effects_chain(engine, current, chains', heap')
                 /\ result' = [op |-> "add_effect", err |-> "OK"]
    /\ UNCHANGED <<current, chain_ids, ctl, effectVars, storeVars, presetVars>>

\* MainWindow.toggle_audio: an active engine is stopped; otherwise it is
\* started and the current chain installed. started says whether
\* start_processing returns; when it raises the error is shown.
ToggleAudio(started) ==
    /\ IF engine.processing_active
       THEN engine' = [engine EXCEPT !.processing_active = FALSE]
       ELSE IF ~started THEN UNCHANGED engine
       ELSE engine' = set_effects_chain([engine EXCEPT !.processing_active = TRUE],
                                        current, chains, heap)
    /\ result' = [op |-> "toggle_audio", err |-> IF started THEN "OK" ELSE "AudioError"]
    /\ UNCHANGED <<chains, current, heap, chain_ids, ctl, effectVars, storeVars, presetVars>>

InitApp ==
    /\ chains = [i \in {1} |-> EffectsChain_init("Default Chain").chain]
    /\ current = 1
    /\ heap = << >>
    /\ chain_ids = 1
    /\ result = NoCall
    /\ presets = << >> /\ preset_names = << >> /\ files = << >> /\ preset_ids = 0
    /\ sres = NoCall
    /\ \E available \in BOOLEAN :
          engine = [processing_active |-> FALSE, effects_chain |-> 0,
                    pedalboard |-> NoPedalboard, pedalboard_available |-> available]
    /\ ctl = NoCall
    /\ EffectIdle /\ PresetIdle

NextApp ==
    \/ \E cfg \in AppChainConfigs : CreateChain(cfg)
    \/ \E c \in 1..MaxAppChains : DeleteChain(c)
    \/ \E c \in 1..MaxAppChains : SetCurrentChain(c)
    \/ \E c \in AppSaveConfigs : SavePreset(c, TRUE)
    \/ \E id \in PresetIdArgs : LoadSelectedPreset(id)
    \/ PanelAddEffect(EffectConfig("BOOST", << >>, FALSE, FALSE))
    \/ \E started \in BOOLEAN : ToggleAudio(started)

SpecApp == InitApp /\ [][NextApp]_vars

\* C30: whenever the Manager's current chain changes (createChain,
\* deleteChain of the current chain, setCurrentChain, or a preset load
\* installing a chain), setEffectsChain is invoked on the renderer, so that
\* once the change completes the engine's chain is the Manager's current
\* chain.
C30_EngineFollowsCurrentChain ==
    [][current' # current => engine'.effects_chain = current']_vars

----------------------------------------------------------------------------
(* SpecBypass: a caller holds the manager and the engine, as the           *)
(* integration tests do: it creates chains, installs one in the engine,    *)
(* toggles the bypass flag of effects through the manager and has frames   *)
(* processed. ctl holds what the last frame went through.                  *)

\* bypass configurations: a dict without "bypassed" has has_bypassed FALSE
BypassConfigs == [has_bypassed : BOOLEAN, bypassed : BOOLEAN]

\* EffectsManager.toggle_effect_bypass(effect_id, bypass_config)
ToggleEffectBypass(effect_id, cfg) ==
    /\ \E o \in {find_effect_by_id(chains, heap, effect_id)} :
       IF o = 0
       THEN /\ result' = [op |-> "toggle_effect_bypass", err |-> "EffectNotFound",
                          id |-> effect_id]
            /\ UNCHANGED heap
       ELSE IF ~cfg.has_bypassed
       THEN /\ result' = [op |-> "toggle_effect_bypass", err |-> "InvalidBypassConfig",
                          id |-> effect_id]
            /\ UNCHANGED heap
       ELSE /\ heap' = [heap EXCEPT ![o].bypassed = cfg.bypassed]
            /\ result' = [op |-> "toggle_effect_bypass", err |-> "OK", id |-> effect_id]
    /\ UNCHANGED <<chains, current, chain_ids, effectVars, storeVars, presetVars, concVars>>

\* audio_engine.set_effects_chain(chain) for a registered chain
SetEffectsChain(c) ==
    /\ c \in DOMAIN chains
    /\ engine' = set_effects_chain(engine, c, chains, heap)
    /\ UNCHANGED <<ctl, effectVars, managerVars, storeVars, presetVars>>

\* audio_engine.start_processing(audio_config) with a valid configuration:
\* the engine has an audio interface from then on
BypassStart ==
    /\ ~engine.processing_active
    /\ engine' = [engine EXCEPT !.processing_active = TRUE, !.audio_interface = TRUE]
    /\ UNCHANGED <<ctl, effectVars, managerVars, storeVars, presetVars>>

\* AudioEngine.process_frame(frame): without a chain or without effects the
\* samples go through _process_frame unchanged; otherwise
\* _apply_effects_chain returns them unchanged when there is no pedalboard
\* (or an empty one), runs them through the pedalboard when the engine has
\* an audio interface, and multiplies them by 1.1 when it has none. The
\* record keeps the effects of the installed chain as they are at that
\* moment.
RenderFrame ==
    /\ \E c \in {engine.effects_chain} :
       \E effects \in {IF c \in DOMAIN chains THEN chains[c].effects ELSE << >>} :
          ctl' = [op |-> "process_frame",
                  interface |-> engine.audio_interface,
                  mode |-> IF Len(effects) = 0 \/ engine.pedalboard.effects = << >>
                           THEN "unchanged"
                           ELSE IF engine.audio_interface THEN "pedalboard"
                           ELSE "mock_gain",
                  applied |-> IF Len(effects) = 0 THEN << >> ELSE engine.pedalboard.effects,
                  effects |-> [i \in 1..Len(effects) |->
                                  [id |-> heap[effects[i]].id,
                                   bypassed |-> heap[effects[i]].bypassed]]]
    /\ UNCHANGED <<engine, effectVars, managerVars, storeVars, presetVars>>

InitBypass ==
    /\ chains = [i \in {1} |-> EffectsChain_init("Default Chain").chain]
    /\ current = 1
    /\ heap = << >>
    /\ chain_ids = 1
    /\ result = NoCall
    /\ \E available \in BOOLEAN :
          engine = [processing_active |-> FALSE, audio_interface |-> FALSE,
                    effects_chain |-> 0, pedalboard |-> NoPedalboard,
                    pedalboard_available |-> available]
    /\ ctl = NoCall
    /\ EffectIdle /\ StoreIdle /\ PresetIdle

NextBypass ==
    \/ \E cfg \in AppChainConfigs : CreateChain(cfg)
    \/ \E c \in 1..MaxChainIds : SetEffectsChain(c)
    \/ BypassStart
    \/ \E e \in 1..(MaxManagerEffects + 1), cfg \in BypassConfigs : ToggleEffectBypass(e, cfg)
    \/ RenderFrame

SpecBypass == InitBypass /\ [][NextBypass]_vars

\* the ids of the effects of a frame record that are not bypassed, in order
ActiveIds(effects) ==
    LET RECURSIVE pick(_)
        pick(i) == IF i > Len(effects) THEN << >>
                   ELSE IF effects[i].bypassed THEN pick(i + 1)
                   ELSE <<effects[i].id>> \o pick(i + 1)
    IN pick(1)

\* C31: after toggleEffectBypass(effect, true) on an effect of the chain
\* installed in the engine, the next frame processed by the engine treats
\* that effect as a pass-through (with a single bypassed effect the output
\* equals the input); after toggling back to false the effect is applied
\* again. With the pedalboard library there and the engine started, a frame
\* goes through exactly the effects of the installed chain that are not
\* bypassed when it is processed.
C31_FrameHonoursBypass ==
    (ctl.op = "process_frame" /\ engine.pedalboard_available /\ ctl.interface) =>
       /\ ctl.applied = ActiveIds(ctl.effects)
       /\ ctl.mode = IF ActiveIds(ctl.effects) = << >> THEN "unchanged" ELSE "pedalboard"

\* C32: a chain operation that fails or finds nothing (addEffect at
\* capacity, addEffect of an identity already present, reorderEffects
\* rejected with OrderMismatch, removeEffect of an unknown id, which returns
\* false) leaves the effect sequence, every effect's position and the
\* chain's modifiedAt unchanged.
C32_FailedChainCallChangesNothing ==
    [][(result'.op \in {"add", "remove", "reorder"}
        /\ result'.err \in {"CapacityExceeded", "DuplicateEffect", "OrderMismatch", "NotFound"})
       => /\ chains'[1] = chains[1]
          /\ \A i \in 1..Len(chains[1].effects) :
                heap'[chains[1].effects[i]].position = heap[chains[1].effects[i]].position
          /\ ~result'.touched]_vars

\* a list with an unknown id was refused on a chain of several effects
C32_Witness ==
    /\ result.op = "reorder" /\ result.err = "OrderMismatch"
    /\ result.len_before >= 2
    /\ Len(TheChain.effects) = result.len_before

----------------------------------------------------------------------------
(* SpecLookup: the manager's calls that take an effect id, among calls     *)
(* that create and delete chains and add and remove effects                *)

\* most AudioEffect objects created
MaxLookupEffects == 2

\* chain configurations passed to create_chain: those of at most one effect
LookupChainConfigs == {c \in CreateConfigs : Len(c.effects) <= 1}

\* effect ids a caller passes: those handed out and one never handed out
LookupIds == 1..(MaxLookupEffects + 1)

\* EffectsManager.add_effect_to_chain(chain_id, effect_config)
AddEffectCall(chain_id, cfg) ==
    /\ IF chain_id \notin DOMAIN chains
       THEN /\ result' = [op |-> "add_effect_to_chain", err |-> "ChainNotFound", id |-> 0]
            /\ UNCHANGED <<chains, heap>>
       ELSE \E r \in {IF cfg.type = "missing" THEN [err |-> "InvalidEffectConfig"]
                      ELSE create_and_add_effect(chains[chain_id], heap, cfg)} :
            \E ok \in {r.err = "OK"} :
               /\ ok => Cardinality(DOMAIN r.heap) <= MaxLookupEffects
               /\ chains' = IF ok THEN [chains EXCEPT ![chain_id] = r.chain] ELSE chains
               /\ heap' = IF ok THEN r.heap ELSE heap
               /\ result' = [op |-> "add_effect_to_chain",
                             err |-> IF ok THEN "OK" ELSE "InvalidEffectConfig", id |-> 0]
    /\ UNCHANGED <<current, chain_ids, effectVars, storeVars, presetVars, concVars>>

\* EffectsManager.get_effect_parameters(effect_id)
GetEffectParameters(effect_id) ==
    /\ \E o \in {find_effect_by_id(chains, heap, effect_id)} :
          result' = [op |-> "get_effect_parameters",
                     err |-> IF o = 0 THEN "EffectNotFound" ELSE "OK", id |-> effect_id]
    /\ UNCHANGED <<chains, current, heap, chain_ids,
                   effectVars, storeVars, presetVars, concVars>>

NextLookup ==
    \/ \E cfg \in LookupChainConfigs :
          /\ Cardinality(DOMAIN heap) + Len(cfg.effects) <= MaxLookupEffects
          /\ CreateChainCall(cfg)
    \/ \E c \in 1..MaxCreatedChains : DeleteChain(c)
    \/ \E c \in 1..MaxCreatedChains :
          AddEffectCall(c, EffectConfig("BOOST", << >>, FALSE, FALSE))
    \/ \E c \in 1..MaxCreatedChains, e \in LookupIds : RemoveEffectFromChain(c, e)
    \/ \E e \in LookupIds : GetEffectParameters(e)
    \/ \E e \in LookupIds : UpdateEffectParameters(e, << <<"tone", Float(3100)>> >>)
    \/ \E e \in LookupIds, has \in BOOLEAN :
          ToggleEffectBypass(e, [has_bypassed |-> has, bypassed |-> TRUE])

SpecLookup == Init /\ [][NextLookup]_vars

\* the registered chains that hold an effect with the id
ChainsWith(effect_id) ==
    {c \in DOMAIN chains : IndexOfId(chains[c].effects, heap, effect_id) # 0}

\* C33: effect lookup by id in the Manager tracks membership exactly:
\* getEffectParameters, updateEffectParameters and toggleEffectBypass find
\* an effect id iff that effect currently belongs to some registered chain
\* (so after removeEffectFromChain or deleteChain the ids of the removed
\* effects yield EffectNotFound), and no effect id ever belongs to two
\* registered chains.
C33_LookupTracksMembership ==
    /\ result.op \in {"get_effect_parameters", "update_effect_parameters",
                      "toggle_effect_bypass"}
          => (result.err # "EffectNotFound" <=> ChainsWith(result.id) # {})
    /\ \A e \in LookupIds : Cardinality(ChainsWith(e)) <= 1

\* the id of an effect that was removed is not found while another chain
\* still holds an effect
C33_Witness ==
    /\ result.op = "toggle_effect_bypass" /\ result.err = "EffectNotFound"
    /\ result.id \in DOMAIN heap
    /\ heap[result.id].type = "freed"
    /\ \E c \in DOMAIN chains : c # MinId(DOMAIN chains) /\ Len(chains[c].effects) > 0

\* C34: for every importBatch call that returns a result over a list of n
\* records, imported_count + skipped_count + len(errors) = n: every record
\* is counted in exactly one of the three outcomes.
C34_EveryRecordCounted ==
    (sres.op = "import" /\ sres.err = "OK")
    => sres.imported + sres.skipped + sres.errors = Len(sres.records)

\* a batch of two records returned with one record skipped and one in errors
C34_Witness ==
    /\ sres.op = "import" /\ sres.err = "OK"
    /\ Len(sres.records) = 2
    /\ sres.skipped = 1 /\ sres.errors = 1 /\ sres.imported = 0

\* C35: during importBatch with overwriteExisting true, replacing a preset
\* is atomic with respect to failure: if persisting the replacement record
\* fails after the existing preset has been deleted, the store still
\* contains a preset with that name (the original is not lost) and the
\* record is reported in errors.
C35_ReplaceSurvivesWriteFailure ==
    [][(/\ sres'.op = "import" /\ sres'.err = "OK"
        /\ sres'.overwrite
        /\ Len(sres'.records) = 1
        /\ ~Malformed(sres'.records[1])
        /\ sres'.records[1].name \in DOMAIN preset_names
        /\ sres'.io_failed /\ ~sres'.unlink_failed)
       => /\ sres'.errors = 1
          /\ IdsNamed(presets', sres'.records[1].name) # {}
          /\ IdsNamed(files', sres'.records[1].name) # {}]_vars

\* AudioEngine.get_status(): the fields taken from the audio interface, 0 and
\* "" when there is none
get_status(e) ==
    IF e.audio_interface.input_device_name = "None"
    THEN [active |-> e.processing_active, sample_rate |-> 0, buffer_size |-> 0,
          input_device |-> "", output_device |-> ""]
    ELSE [active |-> e.processing_active,
          sample_rate |-> e.audio_interface.sample_rate,
          buffer_size |-> e.audio_interface.buffer_size,
          input_device |-> e.audio_interface.input_device_name,
          output_device |-> e.audio_interface.output_device_name]

\* C36: a start_processing call that fails (invalid configuration, or an
\* audio device that is not found) leaves the engine inactive and leaves its
\* reported status (sample rate, buffer size, input and output device)
\* exactly as it was before the call.
C36_FailedStartKeepsStatus ==
    [][(/\ ctl'.op = "start_processing"
        /\ \/ ctl'.err = "InvalidAudioConfig"
           \/ /\ ctl'.err = "AudioHardwareError"
              /\ ctl'.cfg.input_device = "Non-existent Device")
       => /\ ~engine'.processing_active
          /\ get_status(engine') = get_status(engine)]_vars

----------------------------------------------------------------------------
(* SpecChainCopy: a chain, its copy and the effect objects of both. The    *)
(* caller fills chain 1, changes its first effect, copies the chain into   *)
(* chain 2 and then changes the first effect of the copy.                  *)

\* names of the chain that is copied
CopySourceNames == {"Lead", "N43", "N44", "N50"}

\* most copies made of the chain
MaxChainCopies == 1

\* the heap with one more object in it
WithEffect(h, o) == [r \in (DOMAIN h) \cup {NewRef(h)} |-> IF r = NewRef(h) THEN o ELSE h[r]]

\* the loop of EffectsChain.copy: effect.copy() is from_dict(to_dict()) with
\* a new id, and the new effect is added to the new chain
RECURSIVE copy_effects(_, _, _)
copy_effects(effects, r, i) ==
    IF i > Len(effects) \/ r.err # "OK" THEN r
    ELSE The({
      IF f.err # "OK" THEN [r EXCEPT !.err = f.err]
      ELSE The({copy_effects(effects,
                             [err |-> a.err, chain |-> a.chain, heap |-> a.heap], i + 1)
                : a \in {add_effect(r.chain,
                                    WithEffect(r.heap,
                                               [id |-> NewRef(r.heap), type |-> f.type,
                                                parameters |-> f.parameters,
                                                bypassed |-> f.bypassed,
                                                position |-> f.position,
                                                preset_name |-> f.preset_name]),
                                    NewRef(r.heap))}})
      : f \in {AudioEffect_from_dict(AudioEffect_to_dict(r.heap[effects[i]]))}})

\* EffectsChain.copy() with no name: a chain named name + " (Copy)" is
\* constructed and the copies of the effects are added to it
EffectsChain_copy(chain, h) ==
    The({IF c.err # "OK" THEN [err |-> c.err, heap |-> h]
         ELSE copy_effects(chain.effects, [err |-> "OK", chain |-> c.chain, heap |-> h], 1)
         : c \in {EffectsChain_init(chain.name \o " (Copy)")}})

\* the effect objects of a chain, in order
ObjectsOf(c, h) == [i \in 1..Len(c.effects) |-> h[c.effects[i]]]

\* copy = chain.copy()
ChainCopy ==
    /\ chain_ids < 1 + MaxChainCopies
    /\ \E r \in {EffectsChain_copy(chains[1], heap)} :
          /\ IF r.err = "OK"
             THEN /\ chains' = DictPut(chains, chain_ids + 1, r.chain)
                  /\ heap' = r.heap
                  /\ chain_ids' = chain_ids + 1
             ELSE UNCHANGED <<chains, heap, chain_ids>>
          /\ result' = [op |-> "copy", err |-> r.err, target |-> chain_ids + 1]
    /\ UNCHANGED <<current, effectVars, storeVars, presetVars, concVars>>

\* copy.effects[0].update_parameters(updates) and set_bypassed(b) on the copy
ChangeCopy(updates, b) ==
    /\ 2 \in DOMAIN chains /\ Len(chains[2].effects) > 0
    /\ \E o \in {chains[2].effects[1]} :
       \E r \in {update_parameters(heap[o].type, heap[o].parameters, updates)} :
          /\ heap' = [heap EXCEPT ![o].parameters = r.parameters, ![o].bypassed = b]
          /\ result' = [op |-> "change_copy", err |-> r.err, source |-> ObjectsOf(chains[1], heap)]
    /\ UNCHANGED <<chains, current, chain_ids, effectVars, storeVars, presetVars, concVars>>

InitChainCopy ==
    /\ \E n \in CopySourceNames : chains = [c \in {1} |-> EffectsChain_init(n).chain]
    /\ current = 0
    /\ heap = << >>
    /\ chain_ids = 1
    /\ result = NoCall
    /\ EffectIdle /\ StoreIdle /\ PresetIdle /\ ConcIdle

NextChainCopy ==
    \/ \E k \in EffectKinds : ChainAddNew(k)
    \/ \E b \in BOOLEAN : SetBypassed(b)
    \/ \E u \in SerialUpdates : SerialUpdateParameters(u)
    \/ ChainCopy
    \/ \E u \in SerialUpdates, b \in BOOLEAN : ChangeCopy(u, b)

SpecChainCopy == InitChainCopy /\ [][NextChainCopy]_vars

\* the (kind, parameters, bypassed) of the chain's effects, in order
Settings(c, h) ==
    [i \in 1..Len(c.effects) |->
        [type |-> h[c.effects[i]].type, parameters |-> h[c.effects[i]].parameters,
         bypassed |-> h[c.effects[i]].bypassed]]

\* C37: for every valid chain C (any name of 1 to 50 characters, 0 to 8
\* effects), C.copy() with no name succeeds and returns a chain named
\* C.name + " (Copy)" with the same ordered sequence of (kind, parameters,
\* bypassed), positions 0..n-1, and effect ids all different from C's; later
\* changes to the copy's effects do not change C's effects.
C37_CopyOfValidChain ==
    [][/\ result'.op = "copy"
          => /\ result'.err = "OK"
             /\ chains'[2].name = chains[1].name \o " (Copy)"
             /\ Settings(chains'[2], heap') = Settings(chains[1], heap)
             /\ PositionsMatch(chains'[2], heap')
             /\ \A i \in 1..Len(chains'[2].effects), j \in 1..Len(chains[1].effects) :
                   /\ heap'[chains'[2].effects[i]].id # heap[chains[1].effects[j]].id
                   /\ chains'[2].effects[i] # chains[1].effects[j]
       /\ result'.op = "change_copy"
          => ObjectsOf(chains'[1], heap') = result'.source]_vars

----------------------------------------------------------------------------
(* SpecSnapshot: a chain C, the preset made from it and the chains the     *)
(* preset is turned into. pin is the object graph: dicts are the parameter *)
(* dict objects, and the effects of C (chain), the descriptors of the      *)
(* preset (preset) and the effects of the chain returned last (loaded)     *)
(* refer to them by index. update_parameters writes into the dict object   *)
(* of its effect.                                                          *)

\* most effects added to C
MaxSnapEffects == 2

\* most calls of to_effects_chain
MaxLoads == 2

\* most parameter dicts made
MaxSnapDicts == 6

\* the graph with a value stored as a new dict object
NewDict(g, value) == [g EXCEPT !.dicts = Append(@, value)]

\* the (kind, parameters, bypassed) the items of a list stand for
Resolved(g, items) ==
    [i \in 1..Len(items) |->
        [type |-> items[i].type, parameters |-> g.dicts[items[i].parameters],
         bypassed |-> items[i].bypassed]]

\* from_effects_chain whose descriptors hold the parameter dicts of the
\* effects themselves
RECURSIVE from_effects_chain_SharedParameters(_, _)
from_effects_chain_SharedParameters(g, i) ==
    IF i > Len(g.chain) THEN g
    ELSE from_effects_chain_SharedParameters(
            [g EXCEPT !.preset = Append(@, [type |-> g.chain[i].type,
                                            parameters |-> g.chain[i].parameters,
                                            bypassed |-> g.chain[i].bypassed])],
            i + 1)

\* the loop of Preset.from_effects_chain: a descriptor for each effect, with
\* effect.parameters.copy() as its parameters
RECURSIVE from_effects_chain(_, _)
from_effects_chain(g, i) ==
    IF i > Len(g.chain) THEN g
    ELSE from_effects_chain(
            [NewDict(g, g.dicts[g.chain[i].parameters])
                EXCEPT !.preset = Append(@, [type |-> g.chain[i].type,
                                             parameters |-> Len(g.dicts) + 1,
                                             bypassed |-> g.chain[i].bypassed])],
            i + 1)

\* the loop of Preset.to_effects_chain: AudioEffect(type, parameters) fills
\* a dict of its own with the defaults and the descriptor's values, then
\* set_bypassed and add_effect
RECURSIVE to_effects_chain_graph(_, _)
to_effects_chain_graph(g, i) ==
    IF i > Len(g.preset) THEN g
    ELSE The({to_effects_chain_graph(
                 [NewDict(g, e.parameters)
                     EXCEPT !.loaded = Append(@, [type |-> e.type,
                                                  parameters |-> Len(g.dicts) + 1,
                                                  bypassed |-> g.preset[i].bypassed])],
                 i + 1)
              : e \in {AudioEffect_init(g.preset[i].type,
                                        Items(g.dicts[g.preset[i].parameters]))}})

\* the effects of the chain named by target
SnapEffects(g, target) == IF target = "chain" THEN g.chain ELSE g.loaded

\* the targets changed since the preset was made
ChangedSince(g, target) == IF g.has_preset THEN g.changed \cup {target} ELSE g.changed

\* chain.add_effect(AudioEffect(BOOST)) on C or on the chain returned last
SnapAdd(target) ==
    /\ pin.op = "snapshot"
    /\ target = "loaded" => pin.loads > 0
    /\ Len(SnapEffects(pin, target)) < MaxSnapEffects
    /\ Len(pin.dicts) < MaxSnapDicts
    /\ \E e \in {AudioEffect_init("BOOST", << >>)} :
       \E item \in {[type |-> e.type, parameters |-> Len(pin.dicts) + 1,
                     bypassed |-> e.bypassed]} :
          pin' = IF target = "chain"
                 THEN [NewDict(pin, e.parameters) EXCEPT !.chain = Append(@, item),
                                                         !.changed = ChangedSince(pin, target)]
                 ELSE [NewDict(pin, e.parameters) EXCEPT !.loaded = Append(@, item),
                                                         !.changed = ChangedSince(pin, target)]
    /\ UNCHANGED <<pout, effectVars, managerVars, storeVars, concVars>>

\* effects[0].update_parameters(updates) and set_bypassed(True) on C or on
\* the chain returned last
SnapChange(target, updates) ==
    /\ pin.op = "snapshot"
    /\ Len(SnapEffects(pin, target)) > 0
    /\ \E item \in {SnapEffects(pin, target)[1]} :
       \E r \in {update_parameters(item.type, pin.dicts[item.parameters], updates)} :
          pin' = IF target = "chain"
                 THEN [pin EXCEPT !.dicts[item.parameters] = r.parameters,
                                  !.chain[1].bypassed = TRUE,
                                  !.changed = ChangedSince(pin, target)]
                 ELSE [pin EXCEPT !.dicts[item.parameters] = r.parameters,
                                  !.loaded[1].bypassed = TRUE,
                                  !.changed = ChangedSince(pin, target)]
    /\ UNCHANGED <<pout, effectVars, managerVars, storeVars, concVars>>

\* C.remove_effect(C.effects[0].id)
SnapRemove ==
    /\ pin.op = "snapshot"
    /\ Len(pin.chain) > 0
    /\ pin' = [pin EXCEPT !.chain = Tail(@), !.changed = ChangedSince(pin, "chain")]
    /\ UNCHANGED <<pout, effectVars, managerVars, storeVars, concVars>>

\* preset = Preset.from_effects_chain(C, "A"); original is the value of the
\* configuration it is built with
FromEffectsChain ==
    /\ pin.op = "snapshot"
    /\ ~pin.has_preset
    /\ Len(pin.dicts) + Len(pin.chain) <= MaxSnapDicts
    /\ \E g \in {from_effects_chain(pin, 1)} :
          pin' = [g EXCEPT !.has_preset = TRUE, !.original = Resolved(pin, pin.chain)]
    /\ UNCHANGED <<pout, effectVars, managerVars, storeVars, concVars>>

\* chain = preset.to_effects_chain(), as PresetManager.load_preset returns it
SnapLoad ==
    /\ pin.op = "snapshot"
    /\ pin.has_preset
    /\ pin.loads < MaxLoads
    /\ Len(pin.dicts) + Len(pin.preset) <= MaxSnapDicts
    /\ \E g \in {to_effects_chain_graph([pin EXCEPT !.loaded = << >>], 1)} :
          /\ pin' = [g EXCEPT !.loads = @ + 1]
          /\ pout' = [op |-> "to_effects_chain", err |-> "OK",
                      effects |-> Resolved(g, g.loaded)]
    /\ UNCHANGED <<effectVars, managerVars, storeVars, concVars>>

InitSnapshot ==
    /\ pin = [op |-> "snapshot", dicts |-> << >>, chain |-> << >>, preset |-> << >>,
              loaded |-> << >>, has_preset |-> FALSE, original |-> << >>, loads |-> 0,
              changed |-> {}]
    /\ pout = NoCall
    /\ EffectIdle /\ ManagerIdle /\ StoreIdle /\ ConcIdle

\* parameter updates made on the chains
SnapUpdates == {<< <<"gain_db", Float(500)>> >>, << <<"tone", Float(3100)>> >>}

NextSnapshot ==
    \/ \E target \in {"chain", "loaded"} : SnapAdd(target)
    \/ \E target \in {"chain", "loaded"}, u \in SnapUpdates : SnapChange(target, u)
    \/ SnapRemove
    \/ FromEffectsChain
    \/ SnapLoad

SpecSnapshot == InitSnapshot /\ [][NextSnapshot]_vars

\* C38: a preset and the chains around it are independent: after
\* fromChain(C), updating parameters, bypass or membership of C does not
\* change the preset's chainConfig; and after toChain() (or Store load),
\* updating parameters of the returned chain or adding effects to it does
\* not change the preset, so a later load of the same preset again yields
\* the originally stored effect count and values.
C38_PresetIndependentOfChains ==
    (pin.op = "snapshot" /\ pin.has_preset)
    => /\ Resolved(pin, pin.preset) = pin.original
       /\ pout.op = "to_effects_chain" => pout.effects = pin.original

\* the preset was loaded a second time after C and the chain loaded first
\* were changed
C38_Witness ==
    /\ pin.op = "snapshot" /\ pin.has_preset
    /\ pin.loads = MaxLoads
    /\ pin.changed = {"chain", "loaded"}
    /\ Len(pin.original) > 0
    /\ Len(pin.chain) > 0
    /\ Resolved(pin, pin.chain)[1] # pin.original[1]
    /\ pout.op = "to_effects_chain"
    /\ Resolved(pin, pin.loaded) = pout.effects

----------------------------------------------------------------------------
(* SpecUpdate: Preset.update called on one preset object. pin is the       *)
(* preset with modified_at as the number of times it was refreshed, pout   *)
(* the last call with the preset as it was before it.                      *)

\* most refreshes of modified_at
MaxModified == 2

\* arguments of Preset.update: each field absent, valid or invalid
PresetUpdateArgs ==
    {u \in [has_name : BOOLEAN, name : {"", "B", "N100", "N101"},
            has_description : BOOLEAN, description : {"warm", "D501"},
            has_tags : BOOLEAN, tags : {<<"rock">>, <<"rock", "bad tag!">>},
            has_config : BOOLEAN, effects_chain_config : {"cfgB"}] :
        /\ ~u.has_name => u.name = ""
        /\ ~u.has_description => u.description = "warm"
        /\ ~u.has_tags => u.tags = <<"rock">>}

\* preset.update(name=..., description=..., tags=..., effects_chain_config=...)
PresetUpdate(u) ==
    /\ pin.op = "preset"
    /\ pin.modified_at < MaxModified
    /\ \E r \in {Preset_update(pin.preset, u)} :
          /\ pin' = [pin EXCEPT !.preset = r.preset,
                                !.modified_at = IF r.touched THEN @ + 1 ELSE @]
          /\ pout' = [op |-> "update", err |-> r.err, args |-> u, before |-> pin]
    /\ UNCHANGED <<effectVars, managerVars, storeVars, concVars>>

InitUpdate ==
    /\ pin = [op |-> "preset", modified_at |-> 0,
              preset |-> Preset_init(1, "A", "cfgA", "None", << >>).preset]
    /\ pout = NoCall
    /\ EffectIdle /\ ManagerIdle /\ StoreIdle /\ ConcIdle

NextUpdate == \E u \in PresetUpdateArgs : PresetUpdate(u)

SpecUpdate == InitUpdate /\ [][NextUpdate]_vars

\* C39: Preset.update is atomic on failure: a call in which any supplied
\* field fails validation (name not 1 to 100 characters, description over
\* 500 characters, or a tag outside the allowed pattern) leaves name,
\* description, tags, chainConfig and modifiedAt all unchanged, even when
\* fields supplied earlier in the same call were valid.
C39_UpdateAtomicOnFailure ==
    (pout.op = "update" /\ pout.err # "OK") => pin = pout.before

====
